---- MODULE Spec2Model ----
(***************************************************************************)
(* Session and port-forwarding lifecycle of the GPU server automation app. *)
(*                                                                         *)
(* Three parts of the repository are modelled, each with its own           *)
(* specification over the same variables:                                  *)
(*   Spec / FairSpec  session_manager.py, class SessionManager             *)
(*   AppSpec          app.py, the active_sessions table and its routes     *)
(*   PortSpec         port_utils.py, find_available_local_port             *)
(***************************************************************************)
EXTENDS Integers, Sequences, FiniteSets, Bags, TLC

(***************************************************************************)
(* Bounds of the model.                                                    *)
(***************************************************************************)
NumIds == 2
NumThreads == 2
NumCallers == 1
NumRequests == 2
MaxTime == 2
SessionTimeout == 1
CallCap == 2
MaxObjs == 2
NumPorts == 2
MaxPort == 3
NumDPorts == 2
MaxLines == 2
MaxToken == 3

(***************************************************************************)
(* Program constants.                                                      *)
(***************************************************************************)
MaxWorkers == 5
LocalPortLo == 9000
None == -1

Ids == 1..NumIds

\* the users of the application
Emails == 1..NumIds

\* f"auth_{email}_{int(time.time())}": one id for each user and second
SessionId(email, second) == email + NumIds * second

\* f"{email}_{container_name}_{int(time.time())}": never an id of authenticate
SetupId(email, second) == NumIds * (MaxTime + 1) + SessionId(email, second)

AuthIds == {SessionId(e, t) : e \in Emails, t \in 0..MaxTime}

SetupIds == {SetupId(e, t) : e \in Emails, t \in 0..MaxTime}

\* the ids of a registry that holds one session more than the pool of
\* shutdown() has threads
PoolIds == 1..(MaxWorkers + 1)

TaskIds == Ids \cup PoolIds

Threads == 1..NumThreads
\* the client threads that run beside shutdown()
Callers == 1..NumCallers
CleanupKinds == {"ok", "raise", "hang"}

NoHolder == <<"none", 0>>
Client(t) == <<"client", t>>
Worker(i) == <<"worker", i>>

\* LOCAL_PORT_RANGE, cut down to its first NumPorts ports
LOCAL_PORT_RANGE == LocalPortLo..(LocalPortLo + NumPorts - 1)

\* what can be bound to a local port
NoProc == <<"none", 0>>
Foreign == <<"foreign", 0>>
Tunnel(o) == <<"ssh", o>>

\* 'killed' is history: the process the step killed on its local port
NoResp == [op |-> "none", sid |-> 0, success |-> FALSE, msg |-> "", port |-> None,
           killed |-> NoProc, detail |-> ""]

\* the ports find_available_local_port is tried on
PortUniverse == 0..MaxPort

ProbeOutcomes == {"free", "busy", "error"}

PortRanges ==
    [kind : {"tuple"}, lo : PortUniverse, hi : PortUniverse]
        \cup [kind : {"range"}, lo : PortUniverse, hi : 0..(MaxPort + 1)]

\* the ports a Jupyter server can be found on
DPorts == 1..NumDPorts

\* a line of the listing output: a JSON object with its 'port' (None when
\* absent or 0), another JSON value, or text that is not JSON; 'colon' is
\* the number of the first ":<digits>" of the line, None without one
Lines ==
    [json : {"object"}, port : DPorts \cup {None}, colon : {None}]
        \cup [json : {"other", "text"}, port : {None}, colon : DPorts \cup {0, None}]

\* every listing output of up to MaxLines lines
Listings == UNION {[1..n -> Lines] : n \in 0..MaxLines}

\* a command that fails or prints nothing
Unreadable == -2

\* a command that prints nothing
Empty == -3

NoDisc == [ok |-> FALSE, msg |-> "", port |-> None, ip |-> ""]

NoSweep == [ids |-> <<>>, next |-> 1]

NoRet == [t |-> 0, op |-> "none", id |-> 0, ok |-> FALSE, n |-> 0]

VARIABLES
    \* ---- SessionManager ----
    sessions,      \* self.sessions: the dict as a sequence of entries in insertion order
    lock,          \* self._lock: the holder, or NoHolder (threading.Lock, not reentrant)
    now,           \* time.time()
    pc,            \* position of each client thread
    arg,           \* session_id of the remove_session call a thread is in
    caller,        \* who called remove_session: "client" or "sweep"
    expired,       \* expired_sessions of cleanup_expired_sessions, and the
                   \* position of its second loop in that list
    lastRet,       \* the value returned to a caller by the step just taken
    sdPc,          \* position of the thread that calls shutdown()
    snapshot,      \* session_ids of shutdown()
    queue,         \* work queue of the ThreadPoolExecutor
    task,          \* state of the _cleanup_session_async task of each id
    cleanupCalls,  \* history: manager.cleanup() invocations on the manager of each id
    removedIds,    \* history: ids removed by remove_session and not created again
    createdSince,  \* history: ids created after shutdown() took its snapshot
    \* ---- app.py ----
    objs,          \* the session dicts made so far, each with its manager
    active,        \* active_sessions: session id -> session dict
    portProc,      \* the process bound to each local port of LOCAL_PORT_RANGE
    reqs,          \* the requests being served: a bag of their positions and locals
    resp,          \* the response sent by the step just taken
    \* ---- port_utils.py ----
    portRange,     \* argument port_range of find_available_local_port
    probe,         \* what `lsof -i:port` does for each port
    scanPc,        \* position of the scan
    scanPos,       \* the port the for loop is at
    scanStop,      \* end of the range iterated
    probes,        \* history: the ports probed, in order
    scanRes,       \* the returned value
    \* ---- gpu_manager.py, start_jupyter ----
    dPc,           \* position of the port discovery of start_jupyter
    dInfo,         \* info: the lines the listing command printed
    dPort,         \* actual_port
    dCalls,        \* history: the probes run, with the port and host each gave
    dRes,          \* the returned (success, message, metadata)
    \* ---- GPUServerManager.cleanup ----
    cPc,           \* position of one call of cleanup()
    cMgr,          \* the fields of the manager that cleanup() tests
    cSteps,        \* history: the teardown steps attempted, in order
    \* ---- app.py, signal_handler and full_cleanup ----
    tPc,           \* position of the signal handler or of the /full-cleanup request
    tTodo,         \* the sessions of list(active_sessions.items()) not cleaned yet
    sweeps,        \* history: the cleanup_all_ports() runs of this shutdown
    \* ---- app.py, one request of /setup, /authenticate or /stop ----
    fRoute,        \* the route of the request
    fEmail,        \* the user of the request, whose second gives the session id
    fPc,           \* position of the handler
    fMgr,          \* for each user, the GPUServerManager made last for a session of theirs
    fPort,         \* local_port of the handler
    fTable,        \* for each user, the entry of active_sessions of their session, by its keys
    fSteps,        \* history: the steps the handler has run, in order
    fOut,          \* the JSON answer
    fSid,          \* session_id of the /setup handler, made before it connects
    fId,           \* for each user, the key of active_sessions their entry is stored under
    fGone,         \* history: the keys that were deleted from active_sessions
    \* ---- app.py, parse_container_list ----
    plPc,          \* "input" before the call, "done" after it
    mlc_output,    \* the lines of the text given to parse_container_list
    containers,    \* the list it returns
    \* ---- session_manager.py, get_active_sessions ----
    held           \* the mapping a caller got from get_active_sessions

smVars == <<sessions, lock, now, pc, arg, caller, expired, lastRet,
            sdPc, snapshot, queue, task,
            cleanupCalls, removedIds, createdSince>>

appVars == <<objs, active, portProc, reqs, resp>>

portVars == <<portRange, probe, scanPc, scanPos, scanStop, probes, scanRes>>

discVars == <<dPc, dInfo, dPort, dCalls, dRes>>

clVars == <<cPc, cMgr, cSteps>>

termVars == <<tPc, tTodo, sweeps>>

flowVars == <<fRoute, fEmail, fPc, fMgr, fPort, fTable, fSteps, fOut,
              fSid, fId, fGone>>

listVars == <<plPc, mlc_output, containers>>

copyVars == <<held>>

vars == <<smVars, appVars, portVars, discVars, clVars, termVars, flowVars, listVars,
          copyVars>>

(***************************************************************************)
(* The dict self.sessions.  An entry keeps the fields the class reads:     *)
(* 'manager' (here the way its cleanup() behaves) and 'last_activity'.     *)
(***************************************************************************)
Keys(d) == {d[k].id : k \in 1..Len(d)}

Has(d, i) == i \in Keys(d)

Entry(d, i) == d[CHOOSE k \in 1..Len(d) : d[k].id = i]

\* d[i] = e : an existing key keeps its position, a new key is appended
Put(d, i, e) ==
    IF Has(d, i)
    THEN [k \in 1..Len(d) |-> IF d[k].id = i THEN e ELSE d[k]]
    ELSE Append(d, e)

\* del d[i]
Del(d, i) == SelectSeq(d, LAMBDA e : e.id # i)

\* list(d.keys())
KeyList(d) == [k \in 1..Len(d) |-> d[k].id]

Min(a, b) == IF a < b THEN a ELSE b

SeqSet(s) == {s[k] : k \in 1..Len(s)}

Bump(c, i) == [c EXCEPT ![i] = Min(c[i] + 1, CallCap)]

Ret(t, o, i, b, k) == [t |-> t, op |-> o, id |-> i, ok |-> b, n |-> k]

(***************************************************************************)
(* State after SessionManager.__init__.                                    *)
(***************************************************************************)
InitSM ==
    /\ sessions = <<>>
    /\ lock = NoHolder
    /\ now = 0
    /\ pc = [t \in Threads |-> "idle"]
    /\ arg = [t \in Threads |-> 0]
    /\ caller = [t \in Threads |-> "client"]
    /\ expired = [t \in Threads |-> NoSweep]
    /\ lastRet = NoRet
    /\ sdPc = "idle"
    /\ snapshot = <<>>
    /\ queue = <<>>
    /\ task = [i \in TaskIds |-> "none"]
    /\ cleanupCalls = [i \in TaskIds |-> 0]
    /\ removedIds = {}
    /\ createdSince = {}

\* time.time() advances
Tick ==
    /\ now < MaxTime
    /\ now' = now + 1
    /\ UNCHANGED <<sessions, lock, pc, arg, caller, expired,
                   sdPc, snapshot, queue, task,
                   cleanupCalls, removedIds, createdSince>>
    /\ lastRet' = NoRet
    /\ UNCHANGED <<appVars, portVars, discVars, clVars, termVars, flowVars, listVars, copyVars>>

(***************************************************************************)
(* create_session: the whole body runs under the lock.                     *)
(***************************************************************************)
CreateSession(t, i, kind) ==
    /\ pc[t] = "idle"
    /\ lock = NoHolder
    /\ sessions' = Put(sessions, i, [id |-> i, manager |-> kind,
                                     last_activity |-> now])
    /\ lastRet' = Ret(t, "create", i, TRUE, 0)
    /\ cleanupCalls' = [cleanupCalls EXCEPT ![i] = 0]
    /\ removedIds' = removedIds \ {i}
    /\ createdSince' = IF sdPc = "idle" THEN createdSince ELSE createdSince \cup {i}
    /\ UNCHANGED <<lock, now, pc, arg, caller, expired,
                   sdPc, snapshot, queue, task>>
    /\ UNCHANGED <<appVars, portVars, discVars, clVars, termVars, flowVars, listVars, copyVars>>

(***************************************************************************)
(* get_session: touches last_activity when found.  The first definition is *)
(* a get_session that touches every session of the dict.                   *)
(***************************************************************************)
GetSession_TouchesAll(t, i) ==
    /\ pc[t] = "idle"
    /\ lock = NoHolder
    /\ IF Has(sessions, i)
       THEN /\ sessions' = [k \in 1..Len(sessions) |->
                               [sessions[k] EXCEPT !.last_activity = now]]
            /\ lastRet' = Ret(t, "get", i, TRUE, 0)
       ELSE /\ sessions' = sessions
            /\ lastRet' = Ret(t, "get", i, FALSE, 0)
    /\ UNCHANGED <<lock, now, pc, arg, caller, expired,
                   sdPc, snapshot, queue, task,
                   cleanupCalls, removedIds, createdSince>>
    /\ UNCHANGED <<appVars, portVars, discVars, clVars, termVars, flowVars, listVars, copyVars>>

GetSession(t, i) ==
    /\ pc[t] = "idle"
    /\ lock = NoHolder
    /\ IF Has(sessions, i)
       THEN /\ sessions' = Put(sessions, i,
                               [Entry(sessions, i) EXCEPT !.last_activity = now])
            /\ lastRet' = Ret(t, "get", i, TRUE, 0)
       ELSE /\ sessions' = sessions
            /\ lastRet' = Ret(t, "get", i, FALSE, 0)
    /\ UNCHANGED <<lock, now, pc, arg, caller, expired,
                   sdPc, snapshot, queue, task,
                   cleanupCalls, removedIds, createdSince>>
    /\ UNCHANGED <<appVars, portVars, discVars, clVars, termVars, flowVars, listVars, copyVars>>

\* get_session_count
GetSessionCount(t) ==
    /\ pc[t] = "idle"
    /\ lock = NoHolder
    /\ lastRet' = Ret(t, "count", 0, TRUE, Len(sessions))
    /\ UNCHANGED <<sessions, lock, now, pc, arg, caller, expired,
                   sdPc, snapshot, queue, task,
                   cleanupCalls, removedIds, createdSince>>
    /\ UNCHANGED <<appVars, portVars, discVars, clVars, termVars, flowVars, listVars, copyVars>>

(***************************************************************************)
(* get_active_sessions, and what its caller can do to the keys of the      *)
(* mapping it got.  The mapping is either a dict of its own, with the keys *)
(* it had when it was made, or the dict self.sessions itself.              *)
(***************************************************************************)
NoHeld == [made |-> FALSE, own |-> TRUE, keys |-> <<>>]

InitCopy == held = NoHeld

\* the keys of the mapping the caller holds
HeldKeys == IF held.own THEN held.keys ELSE KeyList(sessions)

\* a get_active_sessions that returns self.sessions
GetActiveSessions_ReturnsRegistry(t) ==
    /\ pc[t] = "idle"
    /\ lock = NoHolder
    /\ held' = [made |-> TRUE, own |-> FALSE, keys |-> <<>>]
    /\ lastRet' = Ret(t, "list", 0, TRUE, Len(sessions))
    /\ UNCHANGED <<sessions, lock, now, pc, arg, caller, expired,
                   sdPc, snapshot, queue, task,
                   cleanupCalls, removedIds, createdSince>>
    /\ UNCHANGED <<appVars, portVars, discVars, clVars, termVars, flowVars, listVars>>

\* with self._lock: return self.sessions.copy()
GetActiveSessions(t) ==
    /\ pc[t] = "idle"
    /\ lock = NoHolder
    /\ held' = [made |-> TRUE, own |-> TRUE, keys |-> KeyList(sessions)]
    /\ lastRet' = Ret(t, "list", 0, TRUE, Len(sessions))
    /\ UNCHANGED <<sessions, lock, now, pc, arg, caller, expired,
                   sdPc, snapshot, queue, task,
                   cleanupCalls, removedIds, createdSince>>
    /\ UNCHANGED <<appVars, portVars, discVars, clVars, termVars, flowVars, listVars>>

\* the caller deletes a key of the mapping it holds
HeldDel(i) ==
    /\ held.made
    /\ i \in SeqSet(HeldKeys)
    /\ IF held.own
       THEN /\ held' = [held EXCEPT !.keys = SelectSeq(held.keys, LAMBDA k : k # i)]
            /\ sessions' = sessions
       ELSE /\ held' = held
            /\ sessions' = Del(sessions, i)
    /\ lastRet' = NoRet
    /\ UNCHANGED <<lock, now, pc, arg, caller, expired,
                   sdPc, snapshot, queue, task,
                   cleanupCalls, removedIds, createdSince>>
    /\ UNCHANGED <<appVars, portVars, discVars, clVars, termVars, flowVars, listVars>>

\* the caller stores a new key in the mapping it holds
HeldAdd(i) ==
    /\ held.made
    /\ i \notin SeqSet(HeldKeys)
    /\ IF held.own
       THEN /\ held' = [held EXCEPT !.keys = Append(held.keys, i)]
            /\ sessions' = sessions
       ELSE /\ held' = held
            /\ sessions' = Put(sessions, i, [id |-> i, manager |-> "ok",
                                             last_activity |-> now])
    /\ lastRet' = NoRet
    /\ UNCHANGED <<lock, now, pc, arg, caller, expired,
                   sdPc, snapshot, queue, task,
                   cleanupCalls, removedIds, createdSince>>
    /\ UNCHANGED <<appVars, portVars, discVars, clVars, termVars, flowVars, listVars>>

(***************************************************************************)
(* remove_session.                                                         *)
(***************************************************************************)
\* a client calls remove_session(i) and reaches `with self._lock`
RemoveSessionCall(t, i) ==
    /\ pc[t] = "idle"
    /\ pc' = [pc EXCEPT ![t] = "rm_call"]
    /\ arg' = [arg EXCEPT ![t] = i]
    /\ caller' = [caller EXCEPT ![t] = "client"]
    /\ UNCHANGED <<sessions, lock, now, expired,
                   sdPc, snapshot, queue, task,
                   cleanupCalls, removedIds, createdSince>>
    /\ lastRet' = NoRet
    /\ UNCHANGED <<appVars, portVars, discVars, clVars, termVars, flowVars, listVars, copyVars>>

\* what remove_session hands back: to the client, or to the loop of the
\* sweep, which still holds the lock it took itself
RemoveSessionReturn(t, value) ==
    IF caller[t] = "sweep"
    THEN /\ pc' = [pc EXCEPT ![t] = "sw_loop"]
         /\ expired' = [expired EXCEPT ![t].next = @ + 1]
         /\ arg' = [arg EXCEPT ![t] = 0]
         /\ caller' = [caller EXCEPT ![t] = "client"]
         /\ lock' = NoHolder
         /\ lastRet' = NoRet
    ELSE /\ pc' = [pc EXCEPT ![t] = "idle"]
         /\ expired' = expired
         /\ arg' = [arg EXCEPT ![t] = 0]
         /\ caller' = caller
         /\ lock' = NoHolder
         /\ lastRet' = Ret(t, "remove", arg[t], value, 0)

\* the lock is acquired; a missing id returns False, otherwise the cleanup
\* thread is started and joined while the lock stays held
RemoveSessionEnter(t) ==
    /\ pc[t] = "rm_call"
    /\ lock = NoHolder
    /\ IF Has(sessions, arg[t])
       THEN /\ lock' = Client(t)
            /\ pc' = [pc EXCEPT ![t] = "rm_join"]
            /\ cleanupCalls' = Bump(cleanupCalls, arg[t])
            /\ lastRet' = NoRet
            /\ UNCHANGED <<arg, caller, expired>>
       ELSE /\ RemoveSessionReturn(t, FALSE)
            /\ UNCHANGED cleanupCalls
    /\ UNCHANGED <<sessions, now,
                   sdPc, snapshot, queue, task,
                   removedIds, createdSince>>
    /\ UNCHANGED <<appVars, portVars, discVars, clVars, termVars, flowVars, listVars, copyVars>>

\* _cleanup_manager_with_timeout ends: manager.cleanup() returned, or raised
\* and the exception was caught
CleanupThreadRun(t) ==
    /\ pc[t] = "rm_join"
    /\ Entry(sessions, arg[t]).manager # "hang"
    /\ pc' = [pc EXCEPT ![t] = "rm_ended"]
    /\ UNCHANGED <<sessions, lock, now, arg, caller, expired,
                   sdPc, snapshot, queue, task,
                   cleanupCalls, removedIds, createdSince>>
    /\ lastRet' = NoRet
    /\ UNCHANGED <<appVars, portVars, discVars, clVars, termVars, flowVars, listVars, copyVars>>

\* remove_session that gives up when the cleanup failed or is still running:
\* the entry stays and False is returned
RemoveSessionJoin_GivesUpOnFailure(t) ==
    /\ pc[t] \in {"rm_join", "rm_ended"}
    /\ IF Entry(sessions, arg[t]).manager = "ok"
       THEN /\ sessions' = Del(sessions, arg[t])
            /\ removedIds' = removedIds \cup {arg[t]}
            /\ RemoveSessionReturn(t, TRUE)
       ELSE /\ sessions' = sessions
            /\ removedIds' = removedIds
            /\ RemoveSessionReturn(t, FALSE)
    /\ UNCHANGED <<now, sdPc, snapshot, queue, task,
                   cleanupCalls, createdSince>>
    /\ UNCHANGED <<appVars, portVars, discVars, clVars, termVars, flowVars, listVars, copyVars>>

\* remove_session that returns True and leaves the entry in the dict
RemoveSessionJoin_KeepsEntry(t) ==
    /\ pc[t] \in {"rm_join", "rm_ended"}
    /\ sessions' = sessions
    /\ removedIds' = removedIds \cup {arg[t]}
    /\ RemoveSessionReturn(t, TRUE)
    /\ UNCHANGED <<now, sdPc, snapshot, queue, task,
                   cleanupCalls, createdSince>>
    /\ UNCHANGED <<appVars, portVars, discVars, clVars, termVars, flowVars, listVars, copyVars>>

\* cleanup_thread.join(timeout=10) returns, the thread ended or still alive;
\* the entry is deleted and True returned
RemoveSessionJoin(t) ==
    /\ pc[t] \in {"rm_join", "rm_ended"}
    /\ sessions' = Del(sessions, arg[t])
    /\ removedIds' = removedIds \cup {arg[t]}
    /\ RemoveSessionReturn(t, TRUE)
    /\ UNCHANGED <<now, sdPc, snapshot, queue, task,
                   cleanupCalls, createdSince>>
    /\ UNCHANGED <<appVars, portVars, discVars, clVars, termVars, flowVars, listVars, copyVars>>

(***************************************************************************)
(* cleanup_expired_sessions.                                               *)
(***************************************************************************)
IsExpired(e, current_time) == current_time - e.last_activity > SessionTimeout

\* the ids the first loop appends, in dict order
ExpiredList(d, current_time) ==
    KeyList(SelectSeq(d, LAMBDA e : IsExpired(e, current_time)))

\* current_time = time.time(); the lock is acquired and the first loop
\* collects the expired ids
SweepScan(t) ==
    /\ pc[t] = "idle"
    /\ lock = NoHolder
    /\ lock' = Client(t)
    /\ expired' = [expired EXCEPT ![t] = [ids |-> ExpiredList(sessions, now),
                                           next |-> 1]]
    /\ pc' = [pc EXCEPT ![t] = "sw_loop"]
    /\ UNCHANGED <<sessions, now, arg, caller,
                   sdPc, snapshot, queue, task,
                   cleanupCalls, removedIds, createdSince>>
    /\ lastRet' = NoRet
    /\ UNCHANGED <<appVars, portVars, discVars, clVars, termVars, flowVars, listVars, copyVars>>

\* second loop: self.remove_session(session_id), called with the lock held
SweepCallRemove(t) ==
    /\ pc[t] = "sw_loop"
    /\ expired[t].next <= Len(expired[t].ids)
    /\ pc' = [pc EXCEPT ![t] = "rm_call"]
    /\ arg' = [arg EXCEPT ![t] = expired[t].ids[expired[t].next]]
    /\ caller' = [caller EXCEPT ![t] = "sweep"]
    /\ UNCHANGED <<sessions, lock, now, expired,
                   sdPc, snapshot, queue, task,
                   cleanupCalls, removedIds, createdSince>>
    /\ lastRet' = NoRet
    /\ UNCHANGED <<appVars, portVars, discVars, clVars, termVars, flowVars, listVars, copyVars>>

\* nothing (more) to remove: the lock is released and
\* len(expired_sessions) returned
SweepReturn(t) ==
    /\ pc[t] = "sw_loop"
    /\ expired[t].next > Len(expired[t].ids)
    /\ lock' = NoHolder
    /\ pc' = [pc EXCEPT ![t] = "idle"]
    /\ lastRet' = Ret(t, "sweep", 0, TRUE, Len(expired[t].ids))
    /\ expired' = [expired EXCEPT ![t] = NoSweep]
    /\ UNCHANGED <<sessions, now, arg, caller,
                   sdPc, snapshot, queue, task,
                   cleanupCalls, removedIds, createdSince>>
    /\ UNCHANGED <<appVars, portVars, discVars, clVars, termVars, flowVars, listVars, copyVars>>

(***************************************************************************)
(* shutdown.                                                               *)
(***************************************************************************)
\* session_ids = list(self.sessions.keys()) under the lock; the tasks are
\* submitted in that order, or shutdown returns at once when there is none
ShutdownSnapshot ==
    /\ sdPc = "idle"
    /\ lock = NoHolder
    /\ snapshot' = KeyList(sessions)
    /\ queue' = KeyList(sessions)
    /\ task' = [i \in TaskIds |-> IF Has(sessions, i) THEN "queued" ELSE "none"]
    /\ sdPc' = IF sessions = <<>> THEN "returned" ELSE "draining"
    /\ createdSince' = {}
    /\ UNCHANGED <<sessions, lock, now, pc, arg, caller, expired,
                   cleanupCalls, removedIds>>
    /\ lastRet' = NoRet
    /\ UNCHANGED <<appVars, portVars, discVars, clVars, termVars, flowVars, listVars, copyVars>>

\* a pool with one thread for each session of the snapshot
PoolSize_OnePerSession == Len(snapshot)

\* ThreadPoolExecutor(max_workers=min(len(session_ids), 5))
PoolSize == Min(Len(snapshot), MaxWorkers)

\* the tasks a pool thread is running: _cleanup_session_async was entered
\* and has not returned
Started == {i \in TaskIds : task[i] \in {"waiting", "cleaning"}}

\* a pool thread takes the next task and reaches `with self._lock`
WorkerPick(i) ==
    /\ queue # <<>>
    /\ i = Head(queue)
    /\ Cardinality(Started) < PoolSize
    /\ queue' = Tail(queue)
    /\ task' = [task EXCEPT ![i] = "waiting"]
    /\ UNCHANGED <<sessions, lock, now, pc, arg, caller, expired,
                   sdPc, snapshot,
                   cleanupCalls, removedIds, createdSince>>
    /\ lastRet' = NoRet
    /\ UNCHANGED <<appVars, portVars, discVars, clVars, termVars, flowVars, listVars, copyVars>>

\* a task that calls manager.cleanup() of the manager it was submitted for
\* without looking whether the id is still in the dict
WorkerEnter_NoPresenceCheck(i) ==
    /\ task[i] = "waiting"
    /\ lock = NoHolder
    /\ lock' = IF Has(sessions, i) THEN Worker(i) ELSE lock
    /\ task' = [task EXCEPT ![i] = IF Has(sessions, i) THEN "cleaning" ELSE "done"]
    /\ cleanupCalls' = Bump(cleanupCalls, i)
    /\ UNCHANGED <<sessions, now, pc, arg, caller, expired,
                   sdPc, snapshot, queue,
                   removedIds, createdSince>>
    /\ lastRet' = NoRet
    /\ UNCHANGED <<appVars, portVars, discVars, clVars, termVars, flowVars, listVars, copyVars>>

\* _cleanup_session_async acquires the lock; a missing id returns at once,
\* otherwise manager.cleanup() is called with the lock held
WorkerEnter(i) ==
    /\ task[i] = "waiting"
    /\ lock = NoHolder
    /\ IF Has(sessions, i)
       THEN /\ lock' = Worker(i)
            /\ task' = [task EXCEPT ![i] = "cleaning"]
            /\ cleanupCalls' = Bump(cleanupCalls, i)
       ELSE /\ lock' = lock
            /\ task' = [task EXCEPT ![i] = "done"]
            /\ cleanupCalls' = cleanupCalls
    /\ UNCHANGED <<sessions, now, pc, arg, caller, expired,
                   sdPc, snapshot, queue,
                   removedIds, createdSince>>
    /\ lastRet' = NoRet
    /\ UNCHANGED <<appVars, portVars, discVars, clVars, termVars, flowVars, listVars, copyVars>>

\* a task that cleans up and leaves the entry in the dict
WorkerFinish_KeepsEntry(i) ==
    /\ task[i] = "cleaning"
    /\ Entry(sessions, i).manager # "hang"
    /\ sessions' = sessions
    /\ lock' = NoHolder
    /\ task' = [task EXCEPT ![i] = "done"]
    /\ UNCHANGED <<now, pc, arg, caller, expired,
                   sdPc, snapshot, queue,
                   cleanupCalls, removedIds, createdSince>>
    /\ lastRet' = NoRet
    /\ UNCHANGED <<appVars, portVars, discVars, clVars, termVars, flowVars, listVars, copyVars>>

\* manager.cleanup() returned or raised (caught): the entry is deleted
WorkerFinish(i) ==
    /\ task[i] = "cleaning"
    /\ Entry(sessions, i).manager # "hang"
    /\ sessions' = Del(sessions, i)
    /\ lock' = NoHolder
    /\ task' = [task EXCEPT ![i] = "done"]
    /\ UNCHANGED <<now, pc, arg, caller, expired,
                   sdPc, snapshot, queue,
                   cleanupCalls, removedIds, createdSince>>
    /\ lastRet' = NoRet
    /\ UNCHANGED <<appVars, portVars, discVars, clVars, termVars, flowVars, listVars, copyVars>>

AllTasksDone == \A i \in SeqSet(snapshot) : task[i] = "done"

\* as_completed(..., timeout=30) raises TimeoutError with futures pending;
\* it is caught and the `with` block is left
ShutdownOverallTimeout ==
    /\ sdPc = "draining"
    /\ ~AllTasksDone
    /\ sdPc' = "exiting"
    /\ UNCHANGED <<sessions, lock, now, pc, arg, caller, expired,
                   snapshot, queue, task,
                   cleanupCalls, removedIds, createdSince>>
    /\ lastRet' = NoRet
    /\ UNCHANGED <<appVars, portVars, discVars, clVars, termVars, flowVars, listVars, copyVars>>

\* leaving the `with ThreadPoolExecutor` block joins the pool threads:
\* executor.shutdown(wait=True) returns when every submitted task has ended
ShutdownReturn ==
    /\ sdPc \in {"draining", "exiting"}
    /\ AllTasksDone
    /\ sdPc' = "returned"
    /\ UNCHANGED <<sessions, lock, now, pc, arg, caller, expired,
                   snapshot, queue, task,
                   cleanupCalls, removedIds, createdSince>>
    /\ lastRet' = NoRet
    /\ UNCHANGED <<appVars, portVars, discVars, clVars, termVars, flowVars, listVars, copyVars>>

(***************************************************************************)
(* app.py: the active_sessions table, GPUServerManager and the routes.     *)
(* Flask serves each request on a thread of its own; a request that is     *)
(* between two steps is an element of reqs.                                *)
(***************************************************************************)
InitApp ==
    /\ objs = <<>>
    /\ active = << >>
    /\ portProc = [p \in LOCAL_PORT_RANGE |-> NoProc]
    /\ reqs = EmptyBag
    /\ resp = NoResp

Resp(o, i, b, m, p) ==
    [op |-> o, sid |-> i, success |-> b, msg |-> m, port |-> p, killed |-> NoProc,
     detail |-> ""]

Req(c, i, o, p) == [pc |-> c, sid |-> i, obj |-> o, port |-> p]

InFlight == BagToSet(reqs)

\* every shape a request between two steps can have
ReqSpace ==
    [pc : {"lj_start", "lj_forward", "lo_cleanup", "su_forward"},
     sid : AuthIds \cup SetupIds, obj : 0..MaxObjs,
     port : LOCAL_PORT_RANGE \cup {None}]

\* a further request can be accepted
CanAccept == BagCardinality(reqs) < NumRequests

\* the session dict authenticate stores, with the fields of its manager
\* after __init__ and connect_ssh; 'cleaned' is history: cleanup() was called
NewSession ==
    [ssh_client |-> "open", local_port |-> None, ssh_tunnel_process |-> FALSE,
     sess_local_port |-> None, cleaned |-> FALSE]

\* find_available_local_port of app.py: the first port of LOCAL_PORT_RANGE
\* on which lsof finds no process, None when there is none
FindAvailableLocalPort(pp) ==
    IF \E p \in LOCAL_PORT_RANGE : pp[p] = NoProc
    THEN CHOOSE p \in LOCAL_PORT_RANGE :
            /\ pp[p] = NoProc
            /\ \A q \in LOCAL_PORT_RANGE : pp[q] = NoProc => p <= q
    ELSE None

\* lsof -ti:port | xargs kill -9
KillPort(pp, p) == [pp EXCEPT ![p] = NoProc]

\* a setup_port_forwarding that does not kill the holder of local_port
SetupPortForwarding_NoKill(pp, p, o, ok) ==
    IF ok /\ pp[p] = NoProc
    THEN [ok |-> TRUE, ports |-> [pp EXCEPT ![p] = Tunnel(o)], killed |-> NoProc,
          msg |-> "forwarded"]
    ELSE [ok |-> FALSE, ports |-> pp, killed |-> NoProc, msg |-> "stderr"]

\* setup_port_forwarding of manager o: whatever holds local_port is killed,
\* then ssh -f -N -o ExitOnForwardFailure=yes -L local_port:... is run: it
\* succeeds when it connects (ok) and can bind local_port; with another
\* exit status the message returned is res.stderr
SetupPortForwarding(pp, p, o, ok) ==
    LET freed == KillPort(pp, p) IN
    IF ok /\ freed[p] = NoProc
    THEN [ok |-> TRUE, ports |-> [freed EXCEPT ![p] = Tunnel(o)], killed |-> pp[p],
          msg |-> "forwarded"]
    ELSE [ok |-> FALSE, ports |-> freed, killed |-> pp[p], msg |-> "stderr"]

\* GPUServerManager.cleanup, its effect on the manager: the SSH client is closed
ManagerCleanup(m) == [m EXCEPT !.ssh_client = "closed", !.cleaned = TRUE]

\* GPUServerManager.cleanup, its effect on the local ports: the process of
\* self.ssh_tunnel_process is terminated when that is set, the port
\* self.local_port is cleaned when that is set
ManagerCleanupPorts(m, o, pp) ==
    LET pp1 == IF m.ssh_tunnel_process
               THEN [p \in DOMAIN pp |-> IF pp[p] = Tunnel(o) THEN NoProc ELSE pp[p]]
               ELSE pp
    IN  IF m.local_port # None THEN KillPort(pp1, m.local_port) ELSE pp1

\* a process outside the application binds a free port of the range
ForeignBind(p) ==
    /\ portProc[p] = NoProc
    /\ portProc' = [portProc EXCEPT ![p] = Foreign]
    /\ resp' = NoResp
    /\ UNCHANGED <<objs, active, reqs>>
    /\ UNCHANGED <<smVars, portVars, discVars, clVars, termVars, flowVars, listVars, copyVars>>

\* authenticate: connect_ssh, mlc-list, then the session is stored under
\* session_id = auth_<email>_<second>
Authenticate(email, outcome) ==
    LET sid == SessionId(email, now) IN
    /\ CanAccept
    /\ IF outcome = "ok"
       THEN /\ Len(objs) < MaxObjs
            /\ objs' = Append(objs, NewSession)
            /\ active' = [i \in DOMAIN active \cup {sid} |->
                             IF i = sid THEN Len(objs) + 1 ELSE active[i]]
            /\ resp' = Resp("authenticate", sid, TRUE, "Authentication successful", None)
       ELSE /\ UNCHANGED <<objs, active>>
            /\ resp' = Resp("authenticate", 0, FALSE, outcome, None)
    /\ UNCHANGED <<portProc, reqs>>
    /\ UNCHANGED <<smVars, portVars, discVars, clVars, termVars, flowVars, listVars, copyVars>>

\* a launch_jupyter that goes on with the first port of the range when the
\* scan found none
LaunchCheck_TakesFirstPort(sid, hasName) ==
    /\ CanAccept
    /\ IF sid \notin DOMAIN active
       THEN /\ resp' = Resp("launch", sid, FALSE, "Invalid session", None)
            /\ reqs' = reqs
       ELSE IF ~hasName
       THEN /\ resp' = Resp("launch", sid, FALSE, "Container name is required", None)
            /\ reqs' = reqs
       ELSE /\ reqs' = reqs (+) SetToBag({Req("lj_start", sid, active[sid],
                          IF FindAvailableLocalPort(portProc) = None
                          THEN LocalPortLo
                          ELSE FindAvailableLocalPort(portProc))})
            /\ resp' = NoResp
    /\ UNCHANGED <<objs, active, portProc>>
    /\ UNCHANGED <<smVars, portVars, discVars, clVars, termVars, flowVars, listVars, copyVars>>

\* launch_jupyter up to find_available_local_port
LaunchCheck(sid, hasName) ==
    /\ CanAccept
    /\ IF sid \notin DOMAIN active
       THEN /\ resp' = Resp("launch", sid, FALSE, "Invalid session", None)
            /\ reqs' = reqs
       ELSE IF ~hasName
       THEN /\ resp' = Resp("launch", sid, FALSE, "Container name is required", None)
            /\ reqs' = reqs
       ELSE IF FindAvailableLocalPort(portProc) = None
       THEN /\ resp' = Resp("launch", sid, FALSE,
                            "No available local ports for forwarding", None)
            /\ reqs' = reqs
       ELSE /\ reqs' = reqs (+) SetToBag({Req("lj_start", sid, active[sid],
                                              FindAvailableLocalPort(portProc))})
            /\ resp' = NoResp
    /\ UNCHANGED <<objs, active, portProc>>
    /\ UNCHANGED <<smVars, portVars, discVars, clVars, termVars, flowVars, listVars, copyVars>>

\* manager.start_jupyter: remote commands over the SSH client
LaunchStartJupyter(r, ok) ==
    /\ r \in InFlight
    /\ r.pc = "lj_start"
    /\ IF ok /\ objs[r.obj].ssh_client = "open"
       THEN /\ reqs' = (reqs (-) SetToBag({r}))
                           (+) SetToBag({[r EXCEPT !.pc = "lj_forward"]})
            /\ resp' = NoResp
       ELSE /\ reqs' = reqs (-) SetToBag({r})
            /\ resp' = Resp("launch", r.sid, FALSE, "Failed to start Jupyter", None)
    /\ UNCHANGED <<objs, active, portProc>>
    /\ UNCHANGED <<smVars, portVars, discVars, clVars, termVars, flowVars, listVars, copyVars>>

\* a launch_jupyter that stores the port whatever setup_port_forwarding returns
LaunchForward_RecordsAnyway(r, ok) ==
    /\ r \in InFlight
    /\ r.pc = "lj_forward"
    /\ LET f == SetupPortForwarding(portProc, r.port, r.obj, ok) IN
       /\ portProc' = f.ports
       /\ objs' = [objs EXCEPT ![r.obj].sess_local_port = r.port]
       /\ IF f.ok
          THEN resp' = [Resp("launch", r.sid, TRUE, "Jupyter launched successfully",
                             r.port) EXCEPT !.killed = f.killed]
          ELSE resp' = [Resp("launch", r.sid, FALSE, "Port forwarding failed",
                             None) EXCEPT !.killed = f.killed, !.detail = f.msg]
    /\ reqs' = reqs (-) SetToBag({r})
    /\ UNCHANGED active
    /\ UNCHANGED <<smVars, portVars, discVars, clVars, termVars, flowVars, listVars, copyVars>>

\* manager.setup_port_forwarding: whatever holds local_port is killed, then ssh
\* -f -N -L is run; on success the port is stored in the session dict
LaunchForward(r, ok) ==
    /\ r \in InFlight
    /\ r.pc = "lj_forward"
    /\ LET f == SetupPortForwarding(portProc, r.port, r.obj, ok) IN
       /\ portProc' = f.ports
       /\ IF f.ok
          THEN /\ objs' = [objs EXCEPT ![r.obj].sess_local_port = r.port]
               /\ resp' = [Resp("launch", r.sid, TRUE, "Jupyter launched successfully",
                                r.port) EXCEPT !.killed = f.killed]
          ELSE /\ objs' = objs
               /\ resp' = [Resp("launch", r.sid, FALSE, "Port forwarding failed",
                                None) EXCEPT !.killed = f.killed, !.detail = f.msg]
    /\ reqs' = reqs (-) SetToBag({r})
    /\ UNCHANGED active
    /\ UNCHANGED <<smVars, portVars, discVars, clVars, termVars, flowVars, listVars, copyVars>>

\* setup_gpu_session up to find_available_local_port: validation, connect_ssh,
\* container creation and opening, start_jupyter; the manager is a local of
\* the request, and its cleanup() on a failure closes its own connection only
SetupCheck(email, outcome) ==
    /\ CanAccept
    /\ IF outcome # "ok"
       THEN /\ resp' = Resp("setup", 0, FALSE, outcome, None)
            /\ reqs' = reqs
       ELSE IF FindAvailableLocalPort(portProc) = None
       THEN /\ resp' = Resp("setup", 0, FALSE,
                            "No available local ports for forwarding", None)
            /\ reqs' = reqs
       ELSE /\ reqs' = reqs (+) SetToBag({Req("su_forward", SetupId(email, now), 0,
                                              FindAvailableLocalPort(portProc))})
            /\ resp' = NoResp
    /\ UNCHANGED <<objs, active, portProc>>
    /\ UNCHANGED <<smVars, portVars, discVars, clVars, termVars, flowVars, listVars, copyVars>>

\* setup_gpu_session from manager.setup_port_forwarding on: on success the
\* session dict is stored with its local_port
SetupForward(r, ok) ==
    /\ r \in InFlight
    /\ r.pc = "su_forward"
    /\ Len(objs) < MaxObjs
    /\ LET f == SetupPortForwarding(portProc, r.port, Len(objs) + 1, ok) IN
       /\ portProc' = f.ports
       /\ IF f.ok
          THEN /\ objs' = Append(objs, [NewSession EXCEPT !.sess_local_port = r.port])
               /\ active' = [i \in DOMAIN active \cup {r.sid} |->
                                IF i = r.sid THEN Len(objs) + 1 ELSE active[i]]
               /\ resp' = [Resp("setup", r.sid, TRUE,
                                "GPU session setup completed successfully!",
                                r.port) EXCEPT !.killed = f.killed]
          ELSE /\ UNCHANGED <<objs, active>>
               /\ resp' = [Resp("setup", 0, FALSE, "Port forwarding failed",
                                None) EXCEPT !.killed = f.killed, !.detail = f.msg]
    /\ reqs' = reqs (-) SetToBag({r})
    /\ UNCHANGED <<smVars, portVars, discVars, clVars, termVars, flowVars, listVars, copyVars>>

\* logout up to `manager = session['manager']`
LogoutCheck(sid) ==
    /\ CanAccept
    /\ IF sid \in DOMAIN active
       THEN /\ reqs' = reqs (+) SetToBag({Req("lo_cleanup", sid, active[sid], None)})
            /\ resp' = NoResp
       ELSE /\ resp' = Resp("logout", sid, TRUE, "Session already ended", None)
            /\ reqs' = reqs
    /\ UNCHANGED <<objs, active, portProc>>
    /\ UNCHANGED <<smVars, portVars, discVars, clVars, termVars, flowVars, listVars, copyVars>>

\* logout: manager.cleanup(), then del active_sessions[session_id]; the
\* KeyError of a missing id is caught by the except clause
LogoutCleanup(r) ==
    /\ r \in InFlight
    /\ r.pc = "lo_cleanup"
    /\ objs' = [objs EXCEPT ![r.obj] = ManagerCleanup(@)]
    /\ portProc' = ManagerCleanupPorts(objs[r.obj], r.obj, portProc)
    /\ IF r.sid \in DOMAIN active
       THEN /\ active' = [i \in DOMAIN active \ {r.sid} |-> active[i]]
            /\ resp' = Resp("logout", r.sid, TRUE, "Logged out successfully", None)
       ELSE /\ active' = active
            /\ resp' = Resp("logout", r.sid, FALSE, "Error during logout", None)
    /\ reqs' = reqs (-) SetToBag({r})
    /\ UNCHANGED <<smVars, portVars, discVars, clVars, termVars, flowVars, listVars, copyVars>>

\* cleanup_all_ports of app.py: every port of the range is killed
CleanupAllPorts(pp) == [p \in DOMAIN pp |-> NoProc]

\* cleanup_ports: the port of manager.local_port when set, then the global
\* cleanup; the sessions stay
CleanupPorts(sid) ==
    /\ CanAccept
    /\ IF sid \in DOMAIN active /\ objs[active[sid]].local_port # None
       THEN objs' = [objs EXCEPT ![active[sid]].local_port = None,
                                 ![active[sid]].ssh_tunnel_process = FALSE]
       ELSE objs' = objs
    /\ portProc' = CleanupAllPorts(portProc)
    /\ resp' = Resp("cleanup-ports", sid, TRUE, "Ports and SSH tunnels cleaned up", None)
    /\ UNCHANGED <<active, reqs>>
    /\ UNCHANGED <<smVars, portVars, discVars, clVars, termVars, flowVars, listVars, copyVars>>

(***************************************************************************)
(* port_utils.py: find_available_local_port(port_range).                   *)
(***************************************************************************)
InitPortIdle ==
    /\ portRange = [kind |-> "range", lo |-> 0, hi |-> 0]
    /\ probe = [p \in PortUniverse |-> "free"]
    /\ scanPc = "off"
    /\ scanPos = 0
    /\ scanStop = 0
    /\ probes = <<>>
    /\ scanRes = None

\* a call with any argument and any state of the ports
InitPort ==
    /\ portRange \in PortRanges
    /\ probe \in [PortUniverse -> ProbeOutcomes]
    /\ scanPc = "start"
    /\ scanPos = 0
    /\ scanStop = 0
    /\ probes = <<>>
    /\ scanRes = None

\* a conversion that takes the upper end of a tuple as exclusive
ToRange_Exclusive(r) == [start |-> r.lo, stop |-> r.hi]

\* a tuple (a, b) becomes range(a, b + 1), a range object is taken as it is
ToRange(r) ==
    IF r.kind = "tuple"
    THEN [start |-> r.lo, stop |-> r.hi + 1]
    ELSE [start |-> r.lo, stop |-> r.hi]

ScanStart ==
    /\ scanPc = "start"
    /\ scanPos' = ToRange(portRange).start
    /\ scanStop' = ToRange(portRange).stop
    /\ scanPc' = "loop"
    /\ UNCHANGED <<portRange, probe, probes, scanRes>>
    /\ UNCHANGED <<smVars, appVars, discVars, clVars, termVars, flowVars, listVars, copyVars>>

\* a loop that also returns the port on which the probe raised
ScanProbe_ErrorReturns ==
    /\ scanPc = "loop"
    /\ scanPos < scanStop
    /\ probes' = Append(probes, scanPos)
    /\ IF probe[scanPos] # "busy"
       THEN /\ scanRes' = scanPos
            /\ scanPc' = "done"
            /\ scanPos' = scanPos
       ELSE /\ scanPos' = scanPos + 1
            /\ UNCHANGED <<scanRes, scanPc>>
    /\ UNCHANGED <<portRange, probe, scanStop>>
    /\ UNCHANGED <<smVars, appVars, discVars, clVars, termVars, flowVars, listVars, copyVars>>

\* one turn of the loop: lsof with a non-zero return code returns the port,
\* a zero return code or an exception goes on to the next port
ScanProbe ==
    /\ scanPc = "loop"
    /\ scanPos < scanStop
    /\ probes' = Append(probes, scanPos)
    /\ IF probe[scanPos] = "free"
       THEN /\ scanRes' = scanPos
            /\ scanPc' = "done"
            /\ scanPos' = scanPos
       ELSE /\ scanPos' = scanPos + 1
            /\ UNCHANGED <<scanRes, scanPc>>
    /\ UNCHANGED <<portRange, probe, scanStop>>
    /\ UNCHANGED <<smVars, appVars, discVars, clVars, termVars, flowVars, listVars, copyVars>>

\* the range is exhausted: return None
ScanExhausted ==
    /\ scanPc = "loop"
    /\ scanPos >= scanStop
    /\ scanRes' = None
    /\ scanPc' = "done"
    /\ UNCHANGED <<portRange, probe, scanPos, scanStop, probes>>
    /\ UNCHANGED <<smVars, appVars, discVars, clVars, termVars, flowVars, listVars, copyVars>>

(***************************************************************************)
(* gpu_manager.py: the port discovery at the end of start_jupyter.  Every  *)
(* probe is a remote command; what it prints is an input of its step.      *)
(***************************************************************************)
InitDiscIdle ==
    /\ dPc = "off"
    /\ dInfo = <<>>
    /\ dPort = None
    /\ dCalls = <<>>
    /\ dRes = NoDisc

\* Jupyter was started and start_jupyter reaches the listing command
InitDisc ==
    /\ dPc = "list"
    /\ dInfo = <<>>
    /\ dPort = None
    /\ dCalls = <<>>
    /\ dRes = NoDisc

Probe(s, p) == [s |-> s, port |-> p, host |-> FALSE]

\* the last probe run is marked as having given the container address too
WithHost(c) == [c EXCEPT ![Len(c)].host = TRUE]

DiscReturn(b, m, p, a) == [ok |-> b, msg |-> m, port |-> p, ip |-> a]

\* the loop over info.splitlines(): a JSON object sets actual_port to its
\* port and breaks when that is set; a line on which json.loads or .get
\* raises is searched for ":<digits>" and the loop breaks on a match
RECURSIVE ParseListing(_, _)
ParseListing(info, k) ==
    IF k > Len(info) THEN None
    ELSE IF info[k].json = "object"
         THEN IF info[k].port # None THEN info[k].port
              ELSE ParseListing(info, k + 1)
         ELSE IF info[k].colon # None THEN info[k].colon
              ELSE ParseListing(info, k + 1)

\* jupyter server list --json || jupyter lab list --json
DiscList(ok, info) ==
    /\ dPc = "list"
    /\ IF ~ok \/ info = <<>>
       THEN /\ dPc' = "ps"
            /\ dInfo' = <<>>
       ELSE /\ dPc' = "parse"
            /\ dInfo' = info
    /\ dCalls' = Append(dCalls, Probe("listing", None))
    /\ UNCHANGED <<dPort, dRes>>
    /\ UNCHANGED <<smVars, appVars, portVars, clVars, termVars, flowVars, listVars, copyVars>>

\* the port is parsed from the lines; without one start_jupyter returns
DiscParse ==
    /\ dPc = "parse"
    /\ LET p == ParseListing(dInfo, 1) IN
       IF p = None \/ p = 0
       THEN /\ dPc' = "done"
            /\ dRes' = DiscReturn(FALSE, "Could not parse port", None, "")
            /\ dPort' = p
            /\ dCalls' = dCalls
       ELSE /\ dPc' = "list_ip"
            /\ dPort' = p
            /\ dCalls' = [dCalls EXCEPT ![Len(dCalls)].port = p]
            /\ dRes' = dRes
    /\ UNCHANGED dInfo
    /\ UNCHANGED <<smVars, appVars, portVars, clVars, termVars, flowVars, listVars, copyVars>>

\* docker inspect for the container IP after the listing gave the port
DiscListIp(ok) ==
    /\ dPc = "list_ip"
    /\ dPc' = "done"
    /\ IF ok
       THEN /\ dRes' = DiscReturn(TRUE, "JupyterLab up (no token)", dPort, "container")
            /\ dCalls' = WithHost(dCalls)
       ELSE /\ dRes' = DiscReturn(FALSE, "Could not determine container IP", None, "")
            /\ dCalls' = dCalls
    /\ UNCHANGED <<dInfo, dPort>>
    /\ UNCHANGED <<smVars, appVars, portVars, clVars, termVars, flowVars, listVars, copyVars>>

\* ps aux | grep jupyter: the other probes are run only when it shows Jupyter
DiscPs(running) ==
    /\ dPc = "ps"
    /\ IF running
       THEN /\ dPc' = "netstat"
            /\ dRes' = dRes
       ELSE /\ dPc' = "done"
            /\ dRes' = DiscReturn(FALSE, "Could not read jupyter server list", None, "")
    /\ UNCHANGED <<dInfo, dPort, dCalls>>
    /\ UNCHANGED <<smVars, appVars, portVars, clVars, termVars, flowVars, listVars, copyVars>>

\* netstat -tlnp | grep jupyter || ss -tlnp | grep jupyter; found is None
\* when the command fails, prints nothing or prints no ":<digits>"
DiscNetstat(found) ==
    /\ dPc = "netstat"
    /\ dCalls' = Append(dCalls, Probe("socket", found))
    /\ IF found # None
       THEN /\ dPort' = found
            /\ dPc' = "netstat_ip"
       ELSE /\ dPort' = dPort
            /\ dPc' = "log"
    /\ UNCHANGED <<dInfo, dRes>>
    /\ UNCHANGED <<smVars, appVars, portVars, clVars, termVars, flowVars, listVars, copyVars>>

\* a discovery that goes on to the log file after netstat gave port and IP
DiscNetstatIp_GoesOn(ok) ==
    /\ dPc = "netstat_ip"
    /\ dPc' = "log"
    /\ dCalls' = IF ok THEN WithHost(dCalls) ELSE dCalls
    /\ UNCHANGED <<dInfo, dPort, dRes>>
    /\ UNCHANGED <<smVars, appVars, portVars, clVars, termVars, flowVars, listVars, copyVars>>

\* docker inspect after netstat gave the port: with the IP start_jupyter
\* returns, without it the log file is tried
DiscNetstatIp(ok) ==
    /\ dPc = "netstat_ip"
    /\ IF ok
       THEN /\ dPc' = "done"
            /\ dRes' = DiscReturn(TRUE, "JupyterLab up (no token)", dPort, "container")
            /\ dCalls' = WithHost(dCalls)
       ELSE /\ dPc' = "log"
            /\ dRes' = dRes
            /\ dCalls' = dCalls
    /\ UNCHANGED <<dInfo, dPort>>
    /\ UNCHANGED <<smVars, appVars, portVars, clVars, termVars, flowVars, listVars, copyVars>>

\* tail -20 /workspace/jupyter.log; out is Unreadable when the command
\* fails or prints nothing, else the port of the first http://host:port/
\* of the output, None without one and 0 for port 0
DiscLog(out) ==
    /\ dPc = "log"
    /\ IF out = Unreadable
       THEN /\ dCalls' = Append(dCalls, Probe("log", None))
            /\ dPc' = "done"
            /\ dRes' = DiscReturn(FALSE, "Could not read jupyter server list", None, "")
            /\ dPort' = dPort
       ELSE IF out # None /\ out # 0
       THEN /\ dCalls' = Append(dCalls, Probe("log", out))
            /\ dPc' = "log_ip"
            /\ dPort' = out
            /\ dRes' = dRes
       ELSE /\ dCalls' = Append(dCalls, Probe("log", None))
            /\ dPc' = "ss"
            /\ UNCHANGED <<dPort, dRes>>
    /\ UNCHANGED dInfo
    /\ UNCHANGED <<smVars, appVars, portVars, clVars, termVars, flowVars, listVars, copyVars>>

\* the container IP after the log gave the port: docker inspect -f, then
\* docker inspect | grep, then "localhost"
DiscLogIp(ip) ==
    /\ dPc = "log_ip"
    /\ dPc' = "done"
    /\ dRes' = DiscReturn(TRUE, "JupyterLab up (no token)", dPort, ip)
    /\ dCalls' = WithHost(dCalls)
    /\ UNCHANGED <<dInfo, dPort>>
    /\ UNCHANGED <<smVars, appVars, portVars, clVars, termVars, flowVars, listVars, copyVars>>

\* ss -tlnp | grep python3, run when the log shows no port or port 0; out is
\* Empty, None for output without ":<digits> ", or the port
DiscSs(out) ==
    /\ dPc = "ss"
    /\ IF out = Empty
       THEN /\ dCalls' = Append(dCalls, Probe("ss", None))
            /\ dPc' = "lsof"
            /\ UNCHANGED <<dPort, dRes>>
       ELSE IF out = None
       THEN /\ dCalls' = Append(dCalls, Probe("ss", None))
            /\ dPc' = "done"
            /\ dRes' = DiscReturn(FALSE, "Could not determine actual port", None, "")
            /\ dPort' = dPort
       ELSE /\ dCalls' = Append(dCalls, Probe("ss", out))
            /\ dPc' = "ss_ip"
            /\ dPort' = out
            /\ dRes' = dRes
    /\ UNCHANGED dInfo
    /\ UNCHANGED <<smVars, appVars, portVars, clVars, termVars, flowVars, listVars, copyVars>>

\* lsof -i -P -n | grep python3, the last resort
DiscLsof(out) ==
    /\ dPc = "lsof"
    /\ IF out = Empty
       THEN /\ dCalls' = Append(dCalls, Probe("lsof", None))
            /\ dPc' = "done"
            /\ dRes' = DiscReturn(FALSE, "Could not find Jupyter port", None, "")
            /\ dPort' = dPort
       ELSE IF out = None
       THEN /\ dCalls' = Append(dCalls, Probe("lsof", None))
            /\ dPc' = "done"
            /\ dRes' = DiscReturn(FALSE, "Could not determine actual port", None, "")
            /\ dPort' = dPort
       ELSE /\ dCalls' = Append(dCalls, Probe("lsof", out))
            /\ dPc' = "ss_ip"
            /\ dPort' = out
            /\ dRes' = dRes
    /\ UNCHANGED dInfo
    /\ UNCHANGED <<smVars, appVars, portVars, clVars, termVars, flowVars, listVars, copyVars>>

\* docker inspect after ss or lsof gave the port
DiscSsIp(ok) ==
    /\ dPc = "ss_ip"
    /\ dPc' = "done"
    /\ IF ok
       THEN /\ dRes' = DiscReturn(TRUE, "JupyterLab up (no token)", dPort, "container")
            /\ dCalls' = WithHost(dCalls)
       ELSE /\ dRes' = DiscReturn(FALSE, "Could not read jupyter server list", None, "")
            /\ dCalls' = dCalls
    /\ UNCHANGED <<dInfo, dPort>>
    /\ UNCHANGED <<smVars, appVars, portVars, clVars, termVars, flowVars, listVars, copyVars>>

(***************************************************************************)
(* GPUServerManager.cleanup (app.py and gpu_manager.py): one call, on a    *)
(* manager in any state of its three fields, each teardown step ending in  *)
(* any of the ways it can.                                                 *)
(***************************************************************************)
Managers ==
    [ssh_tunnel_process : BOOLEAN, ssh_client : BOOLEAN,
     local_port : LOCAL_PORT_RANGE \cup {None}]

InitCleanupIdle ==
    /\ cPc = "off"
    /\ cMgr = [ssh_tunnel_process |-> FALSE, ssh_client |-> FALSE, local_port |-> None]
    /\ cSteps = <<>>

InitCleanup ==
    /\ cPc = "tunnel"
    /\ cMgr \in Managers
    /\ cSteps = <<>>

Step(n, o) == [step |-> n, outcome |-> o]

\* if self.ssh_tunnel_process: try: terminate(); wait(timeout=...)
CleanupTerminate(outcome) ==
    /\ cPc = "tunnel"
    /\ IF ~cMgr.ssh_tunnel_process
       THEN /\ cPc' = "client"
            /\ cSteps' = cSteps
       ELSE /\ cSteps' = Append(cSteps, Step("terminate", outcome))
            /\ cPc' = IF outcome = "ok" THEN "client" ELSE "kill"
    /\ UNCHANGED cMgr
    /\ UNCHANGED <<smVars, appVars, portVars, discVars, termVars, flowVars, listVars, copyVars>>

\* except: self.ssh_tunnel_process.kill() -- the call is made in the handler,
\* so what it raises leaves cleanup()
CleanupKill(outcome) ==
    /\ cPc = "kill"
    /\ cSteps' = Append(cSteps, Step("kill", outcome))
    /\ cPc' = IF outcome = "ok" THEN "client" ELSE "raised"
    /\ UNCHANGED cMgr
    /\ UNCHANGED <<smVars, appVars, portVars, discVars, termVars, flowVars, listVars, copyVars>>

\* if self.ssh_client: try: close() except Exception: print
CleanupClose(outcome) ==
    /\ cPc = "client"
    /\ cSteps' = IF cMgr.ssh_client THEN Append(cSteps, Step("close", outcome))
                 ELSE cSteps
    /\ cPc' = "port"
    /\ UNCHANGED cMgr
    /\ UNCHANGED <<smVars, appVars, portVars, discVars, termVars, flowVars, listVars, copyVars>>

\* if self.local_port: try: lsof | xargs kill -9 except ...: print; return
CleanupRelease(outcome) ==
    /\ cPc = "port"
    /\ cSteps' = IF cMgr.local_port # None THEN Append(cSteps, Step("release", outcome))
                 ELSE cSteps
    /\ cPc' = "returned"
    /\ UNCHANGED cMgr
    /\ UNCHANGED <<smVars, appVars, portVars, discVars, termVars, flowVars, listVars, copyVars>>

(***************************************************************************)
(* app.py: signal_handler (SIGINT, SIGTERM), the atexit hook and the       *)
(* /full-cleanup route.  The handler runs in the main thread while the     *)
(* request threads go on.                                                  *)
(***************************************************************************)
InitTerm ==
    /\ tPc = "idle"
    /\ tTodo = {}
    /\ sweeps = <<>>

Alive == tPc # "dead"

Sweep(by, n) == [by |-> by, pending |-> n]

\* the managers of list(active_sessions.items())
ActiveManagers == {active[i] : i \in DOMAIN active}

\* a signal arrives: the handler begins with cleanup_all_ports()
SignalHandler ==
    /\ tPc = "idle"
    /\ portProc' = CleanupAllPorts(portProc)
    /\ sweeps' = <<Sweep("signal", Cardinality(ActiveManagers))>>
    /\ tPc' = "sg_snapshot"
    /\ resp' = NoResp
    /\ UNCHANGED <<objs, active, reqs, tTodo>>
    /\ UNCHANGED <<smVars, portVars, discVars, clVars, flowVars, listVars, copyVars>>

\* for session_id, session in list(active_sessions.items())
SignalSnapshot ==
    /\ tPc = "sg_snapshot"
    /\ tTodo' = ActiveManagers
    /\ tPc' = "sg_clean"
    /\ resp' = NoResp
    /\ UNCHANGED <<objs, active, portProc, reqs, sweeps>>
    /\ UNCHANGED <<smVars, portVars, discVars, clVars, flowVars, listVars, copyVars>>

\* one turn of the loop of the handler or of full_cleanup: manager.cleanup()
CleanOne(o) ==
    /\ tPc \in {"sg_clean", "fc_clean"}
    /\ o \in tTodo
    /\ objs' = [objs EXCEPT ![o] = ManagerCleanup(@)]
    /\ portProc' = ManagerCleanupPorts(objs[o], o, portProc)
    /\ tTodo' = tTodo \ {o}
    /\ resp' = NoResp
    /\ UNCHANGED <<active, reqs, tPc, sweeps>>
    /\ UNCHANGED <<smVars, portVars, discVars, clVars, flowVars, listVars, copyVars>>

\* active_sessions.clear(); sys.exit(0)
SignalExit ==
    /\ tPc = "sg_clean"
    /\ tTodo = {}
    /\ active' = << >>
    /\ tPc' = "atexit"
    /\ resp' = NoResp
    /\ UNCHANGED <<objs, portProc, reqs, tTodo, sweeps>>
    /\ UNCHANGED <<smVars, portVars, discVars, clVars, flowVars, listVars, copyVars>>

\* atexit.register(cleanup_all_ports): run when the interpreter exits
AtExit ==
    /\ tPc = "atexit"
    /\ portProc' = CleanupAllPorts(portProc)
    /\ sweeps' = Append(sweeps, Sweep("atexit", 0))
    /\ tPc' = "dead"
    /\ resp' = NoResp
    /\ UNCHANGED <<objs, active, reqs, tTodo>>
    /\ UNCHANGED <<smVars, portVars, discVars, clVars, flowVars, listVars, copyVars>>

\* POST /full-cleanup up to list(active_sessions.items())
FullCleanupStart ==
    /\ tPc = "idle"
    /\ tTodo' = ActiveManagers
    /\ sweeps' = <<>>
    /\ tPc' = "fc_clean"
    /\ resp' = NoResp
    /\ UNCHANGED <<objs, active, portProc, reqs>>
    /\ UNCHANGED <<smVars, portVars, discVars, clVars, flowVars, listVars, copyVars>>

\* full_cleanup after its loop: active_sessions.clear(), cleanup_all_ports()
FullCleanupSweep ==
    /\ tPc = "fc_clean"
    /\ tTodo = {}
    /\ active' = << >>
    /\ portProc' = CleanupAllPorts(portProc)
    /\ sweeps' = Append(sweeps, Sweep("full", Cardinality(tTodo)))
    /\ tPc' = "idle"
    /\ resp' = Resp("full-cleanup", 0, TRUE, "Full cleanup completed", None)
    /\ UNCHANGED <<objs, reqs, tTodo>>
    /\ UNCHANGED <<smVars, portVars, discVars, clVars, flowVars, listVars, copyVars>>

(***************************************************************************)
(* app.py: one request of /setup, /authenticate or /stop, step by step,    *)
(* with the manager the handler holds in a local variable.  Each remote    *)
(* command ends in one of the ways _run can end: exit status 0, another    *)
(* exit status, or an exception of exec_command or of the read (dropped    *)
(* connection, no output within the timeout).                              *)
(***************************************************************************)
RunOutcomes == {"ok", "fail", "raise"}

NoOut == [success |-> FALSE, msg |-> ""]

Out(b, m) == [success |-> b, msg |-> m]

\* GPUServerManager.__init__
NewManager == [ssh_client |-> "none"]

InitFlowIdle ==
    /\ fRoute = "none"
    /\ fEmail = None
    /\ fPc = "off"
    /\ fMgr = [e \in Emails |-> NewManager]
    /\ fPort = None
    /\ fTable = [e \in Emails |-> "absent"]
    /\ fSteps = <<>>
    /\ fOut = NoOut
    /\ fSid = None
    /\ fId = [e \in Emails |-> None]
    /\ fGone = {}

\* connect_ssh: self.ssh_client = paramiko.SSHClient() comes first, then
\* connect(); when that raises, the except clause returns (False, message)
\* and self.ssh_client keeps the client that is not connected
ConnectSsh(m, ok) ==
    [m EXCEPT !.ssh_client = IF ok THEN "connected" ELSE "unconnected"]

\* GPUServerManager.cleanup on a manager without tunnel process and without
\* local_port: if self.ssh_client: close()
CleanupManager(m) ==
    [m EXCEPT !.ssh_client = IF m.ssh_client = "none" THEN "none" ELSE "closed"]

\* return jsonify(...) of the handler
FlowReturn(b, m) ==
    /\ fPc' = "done"
    /\ fOut' = Out(b, m)

\* manager.cleanup(); return jsonify({'success': False, ...})
FlowFail(step, m) ==
    /\ fMgr' = [fMgr EXCEPT ![fEmail] = CleanupManager(@)]
    /\ fSteps' = fSteps \o <<step, "cleanup">>
    /\ FlowReturn(FALSE, m)

\* except Exception as e: return jsonify({'success': False, ...})
FlowExcept(step, m) ==
    /\ fMgr' = fMgr
    /\ fSteps' = Append(fSteps, step)
    /\ FlowReturn(FALSE, m)

\* the step went well and the handler goes on
FlowGoOn(step, to) ==
    /\ fMgr' = fMgr
    /\ fSteps' = Append(fSteps, step)
    /\ fPc' = to
    /\ fOut' = fOut

\* /setup: the form is read and validated, the manager is made
SetupStart(email, fields) ==
    /\ fPc \in {"off", "done"}
    /\ fTable[email] = "absent"
    /\ fEmail' = email
    /\ fRoute' = "setup"
    /\ fMgr' = IF fields THEN [fMgr EXCEPT ![email] = NewManager] ELSE fMgr
    /\ fPort' = None
    /\ fSteps' = <<>>
    /\ IF fields
       THEN /\ fPc' = "connect"
            /\ fOut' = NoOut
       ELSE FlowReturn(FALSE, "All fields are required")
    /\ fSid' = IF fields THEN SetupId(email, now) ELSE None
    /\ UNCHANGED <<fTable, fId, fGone>>
    /\ UNCHANGED <<smVars, appVars, portVars, discVars, clVars, termVars, listVars, copyVars>>

\* /authenticate: the form is read and validated, the manager is made
AuthStart(email, fields) ==
    /\ fPc \in {"off", "done"}
    /\ fTable[email] = "absent"
    /\ fEmail' = email
    /\ fRoute' = "authenticate"
    /\ fMgr' = IF fields THEN [fMgr EXCEPT ![email] = NewManager] ELSE fMgr
    /\ fPort' = None
    /\ fSteps' = <<>>
    /\ IF fields
       THEN /\ fPc' = "connect"
            /\ fOut' = NoOut
       ELSE FlowReturn(FALSE, "Email and password are required")
    /\ fSid' = None
    /\ UNCHANGED <<fTable, fId, fGone>>
    /\ UNCHANGED <<smVars, appVars, portVars, discVars, clVars, termVars, listVars, copyVars>>

\* success, message = manager.connect_ssh(); if not success: return
FlowConnect(ok) ==
    /\ fPc = "connect"
    /\ fMgr' = [fMgr EXCEPT ![fEmail] = ConnectSsh(@, ok)]
    /\ fSteps' = Append(fSteps, "connect")
    /\ IF ok
       THEN /\ fPc' = IF fRoute = "setup" THEN "exists" ELSE "list"
            /\ fOut' = fOut
       ELSE FlowReturn(FALSE, "SSH connection failed")
    /\ UNCHANGED <<fRoute, fEmail, fPort, fTable, fSid, fId, fGone>>
    /\ UNCHANGED <<smVars, appVars, portVars, discVars, clVars, termVars, listVars, copyVars>>

\* exists, _ = manager.check_container_exists(container_name): mlc-list is
\* run; a failed command counts as "the container does not exist"
SetupExists(outcome, found) ==
    /\ fPc = "exists"
    /\ IF outcome = "raise"
       THEN FlowExcept("exists", "Unexpected error")
       ELSE FlowGoOn("exists", IF outcome = "ok" /\ found THEN "open" ELSE "create")
    /\ UNCHANGED <<fRoute, fEmail, fPort, fTable, fSid, fId, fGone>>
    /\ UNCHANGED <<smVars, appVars, portVars, discVars, clVars, termVars, listVars, copyVars>>

\* success, message = manager.create_container(...)
SetupCreate(outcome) ==
    /\ fPc = "create"
    /\ CASE outcome = "ok" -> FlowGoOn("create", "open")
         [] outcome = "fail" -> FlowFail("create", "Container creation failed")
         [] OTHER -> FlowExcept("create", "Unexpected error")
    /\ UNCHANGED <<fRoute, fEmail, fPort, fTable, fSid, fId, fGone>>
    /\ UNCHANGED <<smVars, appVars, portVars, discVars, clVars, termVars, listVars, copyVars>>

\* success, message = manager.open_container(container_name)
SetupOpen(outcome) ==
    /\ fPc = "open"
    /\ CASE outcome = "ok" -> FlowGoOn("open", "jupyter")
         [] outcome = "fail" -> FlowFail("open", "Container opening failed")
         [] OTHER -> FlowExcept("open", "Unexpected error")
    /\ UNCHANGED <<fRoute, fEmail, fPort, fTable, fSid, fId, fGone>>
    /\ UNCHANGED <<smVars, appVars, portVars, discVars, clVars, termVars, listVars, copyVars>>

\* success, message, token, meta = manager.start_jupyter(container_name, 0):
\* start_jupyter catches what its commands raise and returns a failure
SetupJupyter(ok) ==
    /\ fPc = "jupyter"
    /\ IF ok
       THEN FlowGoOn("discover", "port")
       ELSE FlowFail("discover", "Jupyter startup failed")
    /\ UNCHANGED <<fRoute, fEmail, fPort, fTable, fSid, fId, fGone>>
    /\ UNCHANGED <<smVars, appVars, portVars, discVars, clVars, termVars, listVars, copyVars>>

\* local_port = find_available_local_port(); if not local_port: ...
SetupPort(p) ==
    /\ fPc = "port"
    /\ fPort' = p
    /\ IF p # None
       THEN FlowGoOn("port", "forward")
       ELSE FlowFail("port", "No available local ports for forwarding")
    /\ UNCHANGED <<fRoute, fEmail, fTable, fSid, fId, fGone>>
    /\ UNCHANGED <<smVars, appVars, portVars, discVars, clVars, termVars, listVars, copyVars>>

\* success, message = manager.setup_port_forwarding(...); on success the
\* session is stored with its local_port and the answer is returned
SetupTunnel(ok) ==
    /\ fPc = "forward"
    /\ IF ok
       THEN /\ fMgr' = fMgr
            /\ fSteps' = fSteps \o <<"forward", "record">>
            /\ fTable' = [fTable EXCEPT ![fEmail] = "setup"]
            /\ fId' = [fId EXCEPT ![fEmail] = fSid]
            /\ FlowReturn(TRUE, "GPU session setup completed successfully!")
       ELSE /\ FlowFail("forward", "Port forwarding failed")
            /\ fTable' = fTable
            /\ fId' = fId
    /\ UNCHANGED <<fRoute, fEmail, fPort, fSid, fGone>>
    /\ UNCHANGED <<smVars, appVars, portVars, discVars, clVars, termVars, listVars, copyVars>>

\* success, output = manager.execute_command("mlc-list"), then
\* parse_container_list(output) and the session is stored
AuthList(outcome) ==
    /\ fPc = "list"
    /\ CASE outcome = "ok" ->
              /\ fMgr' = fMgr
              /\ fSteps' = fSteps \o <<"list", "record">>
              /\ fTable' = [fTable EXCEPT ![fEmail] = "auth"]
              /\ fId' = [fId EXCEPT ![fEmail] = SessionId(fEmail, now)]
              /\ FlowReturn(TRUE, "Authentication successful")
         [] outcome = "fail" ->
              /\ FlowFail("list", "Failed to get container list")
              /\ UNCHANGED <<fTable, fId>>
         [] OTHER ->
              /\ FlowExcept("list", "Authentication error")
              /\ UNCHANGED <<fTable, fId>>
    /\ UNCHANGED <<fRoute, fEmail, fPort, fSid, fGone>>
    /\ UNCHANGED <<smVars, appVars, portVars, discVars, clVars, termVars, listVars, copyVars>>

\* /stop/<session_id>, up to the stop command: the id is looked up, then
\* session['container_name'] is read to build the command; a session that
\* authenticate stored has no such key and the KeyError goes to the except
StopStart(email) ==
    /\ fPc \in {"off", "done"}
    /\ fRoute' = "stop"
    /\ fEmail' = email
    /\ fSteps' = <<>>
    /\ CASE fTable[email] = "absent" -> FlowReturn(FALSE, "Session not found")
         [] fTable[email] = "auth" -> FlowReturn(FALSE, "Error stopping session")
         [] OTHER -> fPc' = "stop" /\ fOut' = NoOut
    /\ fSid' = None
    /\ UNCHANGED <<fMgr, fPort, fTable, fId, fGone>>
    /\ UNCHANGED <<smVars, appVars, portVars, discVars, clVars, termVars, listVars, copyVars>>

\* manager.execute_command(mlc-stop ...), its result not looked at, then
\* manager.cleanup() and del active_sessions[session_id]
StopCommand(outcome) ==
    /\ fPc = "stop"
    /\ IF outcome = "raise"
       THEN /\ FlowExcept("stop", "Error stopping session")
            /\ UNCHANGED <<fTable, fId, fGone>>
       ELSE /\ fMgr' = [fMgr EXCEPT ![fEmail] = CleanupManager(@)]
            /\ fSteps' = fSteps \o <<"stop", "cleanup", "remove">>
            /\ fTable' = [fTable EXCEPT ![fEmail] = "absent"]
            /\ fId' = [fId EXCEPT ![fEmail] = None]
            /\ fGone' = fGone \cup {fId[fEmail]}
            /\ FlowReturn(TRUE, "Session stopped successfully")
    /\ UNCHANGED <<fRoute, fEmail, fPort, fSid>>
    /\ UNCHANGED <<smVars, appVars, portVars, discVars, clVars, termVars, listVars, copyVars>>

\* an id that was never a key of active_sessions
UnknownId == 0

SessionIds == AuthIds \cup SetupIds \cup {UnknownId}

\* the ids a client can present: those the answers of /setup and
\* /authenticate gave out, and one that no answer gave out
PresentedIds == (({fId[e] : e \in Emails} \cup fGone) \ {None}) \cup {UnknownId}

\* session_id in active_sessions
InTable(sid) == \E e \in Emails : fTable[e] # "absent" /\ fId[e] = sid

\* the user whose entry is stored under the key
Owner(sid) == CHOOSE e \in Emails : fTable[e] # "absent" /\ fId[e] = sid

\* /logout: a known id has its manager cleaned up and its entry deleted; an
\* unknown one is answered 'Session already ended'
FlowLogout(sid) ==
    /\ fPc \in {"off", "done"}
    /\ sid \in PresentedIds
    /\ fRoute' = "logout"
    /\ fSid' = None
    /\ IF InTable(sid)
       THEN /\ fEmail' = Owner(sid)
            /\ fMgr' = [fMgr EXCEPT ![Owner(sid)] = CleanupManager(@)]
            /\ fSteps' = <<"cleanup", "remove">>
            /\ fTable' = [fTable EXCEPT ![Owner(sid)] = "absent"]
            /\ fId' = [fId EXCEPT ![Owner(sid)] = None]
            /\ fGone' = fGone \cup {sid}
            /\ FlowReturn(TRUE, "Logged out successfully")
       ELSE /\ fSteps' = <<>>
            /\ FlowReturn(TRUE, "Session already ended")
            /\ UNCHANGED <<fEmail, fMgr, fTable, fId, fGone>>
    /\ UNCHANGED fPort
    /\ UNCHANGED <<smVars, appVars, portVars, discVars, clVars, termVars, listVars, copyVars>>

\* the routes that work on the containers of a session
WorkloadRoutes ==
    {"get-containers", "create-container", "start-container",
     "remove-container", "launch-jupyter", "get-jupyter-token"}

\* those that answer '... required' when a field of the request is missing
ValidatingRoutes == {"create-container", "launch-jupyter", "get-jupyter-token"}

\* get_containers, create_container, start_container, remove_container,
\* launch_jupyter, get_jupyter_token: the id is looked up first, then the
\* fields are validated, then the manager of the session runs its commands
WorkloadOp(route, sid, fields, outcome) ==
    /\ fPc \in {"off", "done"}
    /\ sid \in PresentedIds
    /\ fRoute' = route
    /\ fSid' = None
    /\ CASE ~InTable(sid) ->
              /\ fSteps' = <<>>
              /\ FlowReturn(FALSE, "Invalid session")
         [] InTable(sid) /\ route \in ValidatingRoutes /\ ~fields ->
              /\ fSteps' = <<>>
              /\ FlowReturn(FALSE, "Fields are required")
         [] OTHER ->
              /\ fSteps' = <<"command">>
              /\ FlowReturn(outcome = "ok", outcome)
    /\ UNCHANGED <<fEmail, fMgr, fPort, fTable, fId, fGone>>
    /\ UNCHANGED <<smVars, appVars, portVars, discVars, clVars, termVars, listVars, copyVars>>

(***************************************************************************)
(* app.py: parse_container_list.  A line of the text is a blank line, a    *)
(* header line, a line of other text, or a container line                  *)
(* "[name]   token   status" whose columns are separated by runs of        *)
(* blanks; the token is a word over a letter and the hyphen.               *)
(***************************************************************************)
Names == {"c1", "c2"}

Tokens == UNION {[1..n -> {"T", "-"}] : n \in 1..MaxToken}

ContainerLines ==
    [kind : {"container"}, name : Names, token : Tokens, status : {"Up"}]

OtherLine(k) == [kind |-> k, name |-> "", token |-> <<>>, status |-> ""]

OutputLines == ContainerLines \cup {OtherLine(k) : k \in {"blank", "header", "text"}}

Outputs == UNION {[1..n -> OutputLines] : n \in 0..MaxLines}

InitListIdle ==
    /\ plPc = "off"
    /\ mlc_output = <<>>
    /\ containers = <<>>

InitList ==
    /\ plPc = "input"
    /\ mlc_output \in Outputs
    /\ containers = <<>>

\* the position of the first hyphen of the token, 0 when it has none
FirstHyphen(tok) ==
    IF \E k \in 1..Len(tok) : tok[k] = "-"
    THEN CHOOSE k \in 1..Len(tok) :
            /\ tok[k] = "-"
            /\ \A j \in 1..(k - 1) : tok[j] # "-"
    ELSE 0

\* re.match(r'\[([^\]]+)\]\s+([^-]+)-([^\s]+)\s+(.+)', line): group 2 ends
\* before the first hyphen and may be made of blanks of the column gap
\* alone, group 3 is what follows the hyphen up to the next blank
Matches(l) ==
    /\ l.kind = "container"
    /\ FirstHyphen(l.token) > 0
    /\ FirstHyphen(l.token) < Len(l.token)

\* the dict appended for a matching line
ContainerEntry(l) ==
    LET k == FirstHyphen(l.token) IN
    [name |-> l.name,
     framework |-> SubSeq(l.token, 1, k - 1),
     version |-> SubSeq(l.token, k + 1, Len(l.token)),
     status |-> l.status]

\* the loop over the lines: blank and header lines are passed over, a
\* line that matches the pattern gives an entry
RECURSIVE ParseContainerList(_)
ParseContainerList(lines) ==
    IF lines = <<>> THEN <<>>
    ELSE IF Matches(Head(lines))
         THEN <<ContainerEntry(Head(lines))>> \o ParseContainerList(Tail(lines))
         ELSE ParseContainerList(Tail(lines))

\* containers = parse_container_list(output)
ParseCall ==
    /\ plPc = "input"
    /\ containers' = ParseContainerList(mlc_output)
    /\ plPc' = "done"
    /\ UNCHANGED mlc_output
    /\ UNCHANGED <<smVars, appVars, portVars, discVars, clVars, termVars, flowVars, copyVars>>

(***************************************************************************)
(* The registry under concurrent callers.                                  *)
(***************************************************************************)
Init ==
    /\ InitSM /\ InitApp /\ InitPortIdle /\ InitDiscIdle /\ InitCleanupIdle /\ InitTerm
    /\ InitFlowIdle /\ InitListIdle /\ InitCopy

Next ==
    \/ Tick
    \/ \E t \in Threads, i \in Ids, kind \in CleanupKinds : CreateSession(t, i, kind)
    \/ \E t \in Threads, i \in Ids : GetSession(t, i)
    \/ \E t \in Threads : GetSessionCount(t)
    \/ \E t \in Threads, i \in Ids : RemoveSessionCall(t, i)
    \/ \E t \in Threads : RemoveSessionEnter(t)
    \/ \E t \in Threads : CleanupThreadRun(t)
    \/ \E t \in Threads : RemoveSessionJoin(t)
    \/ \E t \in Threads : SweepScan(t)
    \/ \E t \in Threads : SweepCallRemove(t)
    \/ \E t \in Threads : SweepReturn(t)

Spec == Init /\ [][Next]_vars

(***************************************************************************)
(* shutdown() with concurrent create_session and remove_session callers.   *)
(***************************************************************************)
ShutdownNext ==
    \/ \E t \in Callers, i \in Ids, kind \in CleanupKinds : CreateSession(t, i, kind)
    \/ \E t \in Callers, i \in Ids : RemoveSessionCall(t, i)
    \/ \E t \in Callers : RemoveSessionEnter(t)
    \/ \E t \in Callers : CleanupThreadRun(t)
    \/ \E t \in Callers : RemoveSessionJoin(t)
    \/ ShutdownSnapshot
    \/ \E i \in Ids : WorkerPick(i)
    \/ \E i \in Ids : WorkerEnter(i)
    \/ \E i \in Ids : WorkerFinish(i)
    \/ ShutdownOverallTimeout
    \/ ShutdownReturn

ShutdownSpec == Init /\ [][ShutdownNext]_vars

(***************************************************************************)
(* The routes of app.py served by concurrent request threads.              *)
(***************************************************************************)
AppNext ==
    \/ \E p \in LOCAL_PORT_RANGE : ForeignBind(p)
    \/ \E email \in Emails, outcome \in {"ok", "connect_failed", "list_failed"} :
          Authenticate(email, outcome)
    \/ \E sid \in Ids, hasName \in BOOLEAN : LaunchCheck(sid, hasName)
    \/ \E r \in ReqSpace, ok \in BOOLEAN : LaunchStartJupyter(r, ok)
    \/ \E r \in ReqSpace, ok \in BOOLEAN : LaunchForward(r, ok)
    \/ \E sid \in Ids : LogoutCheck(sid)
    \/ \E r \in ReqSpace : LogoutCleanup(r)
    \/ \E sid \in Ids : CleanupPorts(sid)

AppSpec == Init /\ [][AppNext]_vars

(***************************************************************************)
(* Authentications and logouts as the seconds of time.time() go by.        *)
(***************************************************************************)
AuthNext ==
    \/ Tick
    \/ \E email \in Emails, outcome \in {"ok", "connect_failed"} :
          Authenticate(email, outcome)
    \/ \E sid \in AuthIds : LogoutCheck(sid)
    \/ \E r \in ReqSpace : LogoutCleanup(r)

AuthSpec == Init /\ [][AuthNext]_vars

(***************************************************************************)
(* The requests that establish a forwarding: /launch-jupyter and /setup.   *)
(***************************************************************************)
ForwardNext ==
    \/ \E p \in LOCAL_PORT_RANGE : ForeignBind(p)
    \/ \E email \in Emails, outcome \in {"ok", "connect_failed"} :
          Authenticate(email, outcome)
    \/ \E sid \in Ids, hasName \in BOOLEAN : LaunchCheck(sid, hasName)
    \/ \E r \in ReqSpace, ok \in BOOLEAN : LaunchStartJupyter(r, ok)
    \/ \E r \in ReqSpace, ok \in BOOLEAN : LaunchForward(r, ok)
    \/ \E email \in Emails, outcome \in {"ok", "fields_missing", "remote_failed"} :
          SetupCheck(email, outcome)
    \/ \E r \in ReqSpace, ok \in BOOLEAN : SetupForward(r, ok)

ForwardSpec == Init /\ [][ForwardNext]_vars

(***************************************************************************)
(* shutdown() of a registry of up to MaxWorkers + 1 sessions, with no      *)
(* other caller.                                                           *)
(***************************************************************************)
Registry(kinds) ==
    [k \in DOMAIN kinds |-> [id |-> k, manager |-> kinds[k], last_activity |-> 0]]

Registries ==
    {Registry(kinds) : kinds \in UNION {[1..n -> {"ok", "hang"}] : n \in 0..(MaxWorkers + 1)}}

InitPool ==
    /\ sessions \in Registries
    /\ lock = NoHolder
    /\ now = 0
    /\ pc = [t \in Threads |-> "idle"]
    /\ arg = [t \in Threads |-> 0]
    /\ caller = [t \in Threads |-> "client"]
    /\ expired = [t \in Threads |-> NoSweep]
    /\ lastRet = NoRet
    /\ sdPc = "idle"
    /\ snapshot = <<>>
    /\ queue = <<>>
    /\ task = [i \in TaskIds |-> "none"]
    /\ cleanupCalls = [i \in TaskIds |-> 0]
    /\ removedIds = {}
    /\ createdSince = {}

PoolNext ==
    \/ ShutdownSnapshot
    \/ \E i \in TaskIds : WorkerPick(i)
    \/ \E i \in TaskIds : WorkerEnter(i)
    \/ \E i \in TaskIds : WorkerFinish(i)
    \/ ShutdownOverallTimeout
    \/ ShutdownReturn

PoolInit ==
    /\ InitPool /\ InitApp /\ InitPortIdle /\ InitDiscIdle /\ InitCleanupIdle /\ InitTerm
    /\ InitFlowIdle /\ InitListIdle /\ InitCopy

PoolSpec == PoolInit /\ [][PoolNext]_vars

(***************************************************************************)
(* One call of find_available_local_port.                                  *)
(***************************************************************************)
PortNext == ScanStart \/ ScanProbe \/ ScanExhausted

PortInit ==
    /\ InitSM /\ InitApp /\ InitPort /\ InitDiscIdle /\ InitCleanupIdle /\ InitTerm
    /\ InitFlowIdle /\ InitListIdle /\ InitCopy

PortSpec == PortInit /\ [][PortNext]_vars

(***************************************************************************)
(* One port discovery of start_jupyter.                                    *)
(***************************************************************************)
DiscNext ==
    \/ \E ok \in BOOLEAN, info \in Listings : DiscList(ok, info)
    \/ DiscParse
    \/ \E ok \in BOOLEAN : DiscListIp(ok)
    \/ \E running \in BOOLEAN : DiscPs(running)
    \/ \E found \in DPorts \cup {None} : DiscNetstat(found)
    \/ \E ok \in BOOLEAN : DiscNetstatIp(ok)
    \/ \E out \in DPorts \cup {0, None, Unreadable} : DiscLog(out)
    \/ \E ip \in {"container", "localhost"} : DiscLogIp(ip)
    \/ \E out \in DPorts \cup {None, Empty} : DiscSs(out)
    \/ \E out \in DPorts \cup {None, Empty} : DiscLsof(out)
    \/ \E ok \in BOOLEAN : DiscSsIp(ok)

DiscInit ==
    /\ InitSM /\ InitApp /\ InitPortIdle /\ InitDisc /\ InitCleanupIdle /\ InitTerm
    /\ InitFlowIdle /\ InitListIdle /\ InitCopy

DiscSpec == DiscInit /\ [][DiscNext]_vars

(***************************************************************************)
(* One call of GPUServerManager.cleanup.                                   *)
(***************************************************************************)
CleanupNext ==
    \/ \E outcome \in {"ok", "raise", "timeout"} : CleanupTerminate(outcome)
    \/ \E outcome \in {"ok", "raise"} : CleanupKill(outcome)
    \/ \E outcome \in {"ok", "raise"} : CleanupClose(outcome)
    \/ \E outcome \in {"ok", "raise", "timeout"} : CleanupRelease(outcome)

CleanupInit ==
    /\ InitSM /\ InitApp /\ InitPortIdle /\ InitDiscIdle /\ InitCleanup /\ InitTerm
    /\ InitFlowIdle /\ InitListIdle /\ InitCopy

CleanupSpec == CleanupInit /\ [][CleanupNext]_vars

(***************************************************************************)
(* The registry with a caller of get_active_sessions beside the callers    *)
(* that create and remove sessions.                                        *)
(***************************************************************************)
CopyNext ==
    \/ \E t \in Callers, i \in Ids, kind \in {"ok", "hang"} : CreateSession(t, i, kind)
    \/ \E t \in Callers, i \in Ids : RemoveSessionCall(t, i)
    \/ \E t \in Callers : RemoveSessionEnter(t)
    \/ \E t \in Callers : CleanupThreadRun(t)
    \/ \E t \in Callers : RemoveSessionJoin(t)
    \/ \E t \in Callers : GetActiveSessions(t)
    \/ \E i \in Ids : HeldDel(i)
    \/ \E i \in Ids : HeldAdd(i)

CopySpec == Init /\ [][CopyNext]_vars

(***************************************************************************)
(* Requests of /setup, /authenticate and /stop, one after the other.       *)
(***************************************************************************)
FlowNext ==
    \/ \E email \in Emails, fields \in BOOLEAN : SetupStart(email, fields)
    \/ \E email \in Emails, fields \in BOOLEAN : AuthStart(email, fields)
    \/ \E ok \in BOOLEAN : FlowConnect(ok)
    \/ \E outcome \in RunOutcomes, found \in BOOLEAN : SetupExists(outcome, found)
    \/ \E outcome \in RunOutcomes : SetupCreate(outcome)
    \/ \E outcome \in RunOutcomes : SetupOpen(outcome)
    \/ \E ok \in BOOLEAN : SetupJupyter(ok)
    \/ \E p \in LOCAL_PORT_RANGE \cup {None} : SetupPort(p)
    \/ \E ok \in BOOLEAN : SetupTunnel(ok)
    \/ \E outcome \in RunOutcomes : AuthList(outcome)
    \/ \E email \in Emails : StopStart(email)
    \/ \E outcome \in RunOutcomes : StopCommand(outcome)

FlowSpec == Init /\ [][FlowNext]_vars

(***************************************************************************)
(* The session table over time: /authenticate, /logout and the workload    *)
(* routes, one request after the other, while the clock advances.          *)
(***************************************************************************)
TableNext ==
    \/ Tick
    \/ \E email \in Emails : AuthStart(email, TRUE)
    \/ \E ok \in BOOLEAN : FlowConnect(ok)
    \/ \E outcome \in {"ok", "fail"} : AuthList(outcome)
    \/ \E sid \in SessionIds : FlowLogout(sid)
    \/ \E route \in WorkloadRoutes, sid \in SessionIds,
          fields \in BOOLEAN, outcome \in {"ok", "fail"} :
             WorkloadOp(route, sid, fields, outcome)

TableSpec == Init /\ [][TableNext]_vars

(***************************************************************************)
(* One call of parse_container_list.                                       *)
(***************************************************************************)
ListNext == ParseCall

ListInit ==
    /\ InitSM /\ InitApp /\ InitPortIdle /\ InitDiscIdle /\ InitCleanupIdle /\ InitTerm
    /\ InitFlowIdle /\ InitList /\ InitCopy

ListSpec == ListInit /\ [][ListNext]_vars

(***************************************************************************)
(* Termination and full cleanup beside the requests that set up sessions.  *)
(***************************************************************************)
TermNext ==
    \/ \E p \in LOCAL_PORT_RANGE : Alive /\ ForeignBind(p)
    \/ \E email \in Emails, outcome \in {"ok", "remote_failed"} :
          Alive /\ SetupCheck(email, outcome)
    \/ \E r \in ReqSpace, ok \in BOOLEAN : Alive /\ SetupForward(r, ok)
    \/ SignalHandler
    \/ SignalSnapshot
    \/ \E o \in 1..MaxObjs : CleanOne(o)
    \/ SignalExit
    \/ AtExit
    \/ FullCleanupStart
    \/ FullCleanupSweep

TermSpec == Init /\ [][TermNext]_vars

(***************************************************************************)
(* Scheduling: a thread that can take its next step does take it.  Calls   *)
(* made by clients and the passing of time are not forced.                 *)
(***************************************************************************)
ClientFairness ==
    \A t \in Threads :
        /\ WF_vars(RemoveSessionEnter(t))
        /\ WF_vars(CleanupThreadRun(t))
        /\ WF_vars(RemoveSessionJoin(t))
        /\ WF_vars(SweepCallRemove(t))
        /\ WF_vars(SweepReturn(t))

PoolFairness ==
    /\ \A i \in Ids : /\ WF_vars(WorkerPick(i))
                      /\ WF_vars(WorkerEnter(i))
                      /\ WF_vars(WorkerFinish(i))
    /\ WF_vars(ShutdownOverallTimeout)
    /\ WF_vars(ShutdownReturn)

FairSpec == Init /\ [][Next]_vars /\ ClientFairness

FairShutdownSpec == Init /\ [][ShutdownNext]_vars /\ ClientFairness /\ PoolFairness

(***************************************************************************)
(* C1: no local port is recorded as the forwarding port of two live        *)
(* sessions at once, whatever the interleaving of their forwarding setups. *)
(***************************************************************************)
C1_PortExclusive ==
    \A s1 \in DOMAIN active, s2 \in DOMAIN active :
        (s1 # s2 /\ objs[active[s1]].sess_local_port # None)
            => objs[active[s1]].sess_local_port # objs[active[s2]].sess_local_port

(***************************************************************************)
(* C8: when the teardown of a session that recorded a forwarding has run,  *)
(* no tunnel process of that session is bound to its local port any more.  *)
(***************************************************************************)
C8_PortReleasedOnTeardown ==
    [][\A r \in InFlight :
          (LogoutCleanup(r) /\ objs[r.obj].sess_local_port # None)
              => portProc'[objs[r.obj].sess_local_port] # Tunnel(r.obj)]_vars

(***************************************************************************)
(* C9: logout answers success for every session id, and the id is not in   *)
(* active_sessions when it answers.                                        *)
(***************************************************************************)
C9_LogoutAlwaysSucceeds ==
    resp.op = "logout" => (resp.success /\ resp.sid \notin DOMAIN active)

(***************************************************************************)
(* C10: the port find_available_local_port returns lies inside the range   *)
(* it was given (min..max inclusive for a tuple), and it does return one   *)
(* whenever lsof reports some port of the range free.                      *)
(***************************************************************************)
RangePorts(r) ==
    IF r.kind = "tuple"
    THEN {q \in PortUniverse : r.lo <= q /\ q <= r.hi}
    ELSE {q \in PortUniverse : r.lo <= q /\ q < r.hi}

C10_PortInRange ==
    scanPc = "done" =>
        /\ scanRes # None => scanRes \in RangePorts(portRange)
        /\ (\E q \in RangePorts(portRange) : probe[q] = "free")
              => scanRes \in RangePorts(portRange)

\* the upper end of a tuple was returned after a busy port was passed over
C10_Witness ==
    /\ scanPc = "done"
    /\ portRange.kind = "tuple"
    /\ portRange.lo < portRange.hi
    /\ scanRes = portRange.hi

(***************************************************************************)
(* C2: remove_session(id) is idempotent.  A remove_session that finds the  *)
(* entry returns True and the entry is gone; from then on, until the id is *)
(* created again, every remove_session(id) returns False and every         *)
(* get_session(id) returns None.                                           *)
(***************************************************************************)
C2_RemoveIdempotent ==
    [][ /\ \A i \in removedIds' : ~Has(sessions', i)
        /\ \A t \in Threads :
              pc[t] \in {"rm_join", "rm_ended"} /\ pc'[t] = "idle"
                 => lastRet' = Ret(t, "remove", arg[t], TRUE, 0)
        /\ \A t \in Threads, i \in removedIds :
              /\ pc[t] = "rm_call" /\ arg[t] = i /\ pc'[t] = "idle"
                    => lastRet' = Ret(t, "remove", i, FALSE, 0)
              /\ GetSession(t, i) => lastRet' = Ret(t, "get", i, FALSE, 0)
      ]_vars

\* a second remove_session of a removed id has returned False
C2_Witness ==
    \E t \in Threads, i \in removedIds : lastRet = Ret(t, "remove", i, FALSE, 0)

(***************************************************************************)
(* C3: the expiry sweep removes exactly the expired sessions: a sweep that *)
(* found id expired returns, and id is then no longer in the registry.     *)
(***************************************************************************)
C3_SweepRemovesExpired ==
    \A t \in Threads, i \in Ids :
        (pc[t] = "sw_loop" /\ i \in SeqSet(expired[t].ids))
            ~> (pc[t] = "idle" /\ ~Has(sessions, i))

(***************************************************************************)
(* C4: while remove_session(A) waits for the cleanup of A, another thread  *)
(* can complete get_session(B) and create_session(B) for a different B:    *)
(* the lock is not held during the cleanup.                                *)
(***************************************************************************)
C4_CleanupOutsideLock ==
    \A t \in Threads, u \in Threads, b \in Ids :
        (pc[t] = "rm_join" /\ u # t /\ pc[u] = "idle" /\ b # arg[t])
            => /\ lock = NoHolder
               /\ ENABLED GetSession(u, b)
               /\ ENABLED CreateSession(u, b, "ok")

(***************************************************************************)
(* C5: when shutdown() has returned and no session was created since its   *)
(* snapshot, the registry is empty and cleanup() of the manager of every   *)
(* session of the snapshot has been invoked.                               *)
(***************************************************************************)
C5_ShutdownEmptiesRegistry ==
    (sdPc = "returned" /\ createdSince = {})
        => /\ Len(sessions) = 0
           /\ \A i \in SeqSet(snapshot) : cleanupCalls[i] >= 1

\* shutdown() has returned from a registry that held two sessions
C5_Witness ==
    /\ sdPc = "returned"
    /\ createdSince = {}
    /\ Len(snapshot) >= 2
    /\ Len(sessions) = 0

(***************************************************************************)
(* C6: during shutdown a session whose cleanup never returns does not      *)
(* block the others: every other session of the snapshot is eventually     *)
(* removed from the registry.                                              *)
(***************************************************************************)
C6_StuckCleanupBlocksNobody ==
    \A i \in Ids, j \in Ids :
        (/\ i # j
         /\ task[j] = "cleaning"
         /\ Entry(sessions, j).manager = "hang"
         /\ task[i] \in {"queued", "waiting"}
         /\ Has(sessions, i))
            ~> ~Has(sessions, i)

(***************************************************************************)
(* C7: shutdown() eventually returns even when the cleanup of a session    *)
(* never completes.                                                        *)
(***************************************************************************)
C7_ShutdownReturns ==
    (/\ sdPc \in {"draining", "exiting"}
     /\ \E j \in Ids : /\ task[j] = "cleaning"
                       /\ Entry(sessions, j).manager = "hang")
        ~> (sdPc = "returned")

(***************************************************************************)
(* C11: the scan goes through the range in ascending order without gaps,   *)
(* returns the lowest port of the range that lsof reports free, and the    *)
(* returned port is the last one probed (one probe when the first port is  *)
(* free).                                                                  *)
(***************************************************************************)
C11_ScanAscending ==
    /\ \A k \in 1..Len(probes) : probes[k] = portRange.lo + k - 1
    /\ (scanPc = "done" /\ scanRes # None) =>
           /\ probe[scanRes] = "free"
           /\ \A q \in RangePorts(portRange) : probe[q] = "free" => scanRes <= q
           /\ Len(probes) = scanRes - portRange.lo + 1
           /\ probes[Len(probes)] = scanRes
           /\ probe[portRange.lo] = "free" => Len(probes) = 1

\* the second port was returned after one busy port, with a free port above
C11_Witness ==
    /\ scanPc = "done"
    /\ scanRes = portRange.lo + 1
    /\ Len(probes) = 2
    /\ \E q \in RangePorts(portRange) : q > scanRes /\ probe[q] = "free"

(***************************************************************************)
(* C12: when no port of the range is free the scan returns None, and the   *)
(* request (/launch-jupyter or /setup) answers the no-available-port       *)
(* error: no request goes on to the tunnel, no port changes hands and no   *)
(* session records a forwarding.                                           *)
(***************************************************************************)
NoFreePort == \A p \in LOCAL_PORT_RANGE : portProc[p] # NoProc

NoPortAnswer(o, i) ==
    /\ FindAvailableLocalPort(portProc) = None
    /\ resp' = Resp(o, i, FALSE, "No available local ports for forwarding", None)
    /\ reqs' = reqs
    /\ portProc' = portProc
    /\ objs' = objs
    /\ active' = active

C12_ExhaustedFails ==
    [][ /\ \A sid \in DOMAIN active :
              (NoFreePort /\ LaunchCheck(sid, TRUE)) => NoPortAnswer("launch", sid)
        /\ \A email \in Emails :
              (NoFreePort /\ SetupCheck(email, "ok")) => NoPortAnswer("setup", 0)
      ]_vars

\* a launch of a live session was refused with every port of the range bound
C12_Witness ==
    /\ NoFreePort
    /\ resp = Resp("launch", resp.sid, FALSE,
                   "No available local ports for forwarding", None)
    /\ resp.sid \in DOMAIN active

C14_FailureAfterAllStrategies ==
    (dPc = "done" /\ ~dRes.ok)
        => {"listing", "socket", "log"} \subseteq {dCalls[k].s : k \in 1..Len(dCalls)}

(***************************************************************************)
(* C15: from a listing made of one JSON record with port p and of lines    *)
(* that are not JSON, in any order, the port parsed is p.                  *)
(***************************************************************************)
GoodRecords(info) ==
    {k \in 1..Len(info) : info[k].json = "object" /\ info[k].port # None}

OneGoodRecord(info) ==
    /\ Cardinality(GoodRecords(info)) = 1
    /\ \A k \in 1..Len(info) : k \notin GoodRecords(info) => info[k].json = "text"

C15_CorruptLinesSkipped ==
    (dPc \in {"list_ip", "done"} /\ OneGoodRecord(dInfo))
        => dPort = dInfo[CHOOSE k \in GoodRecords(dInfo) : TRUE].port

StepsRun == {cSteps[k].step : k \in 1..Len(cSteps)}

C18_SweepOnceAfterCleanups ==
    [][Len(sweeps') > Len(sweeps)
          => /\ Len(sweeps') = 1
             /\ sweeps'[1].pending = 0
             /\ \A p \in LOCAL_PORT_RANGE : portProc'[p] = NoProc
      ]_vars

(***************************************************************************)
(* C19: a session is never created under an id that is active: no create   *)
(* replaces an entry of active_sessions.                                   *)
(***************************************************************************)
C19_CreateNeverReplaces ==
    [][\A email \in Emails :
          Authenticate(email, "ok") => SessionId(email, now) \notin DOMAIN active
      ]_vars

(***************************************************************************)
(* C20: a live session has at most one tunnel, the one on the local port   *)
(* it records: no tunnel of the session runs on another port.              *)
(***************************************************************************)
C20_OneTunnelPerSession ==
    \A sid \in DOMAIN active, p \in LOCAL_PORT_RANGE :
        portProc[p] = Tunnel(active[sid]) => objs[active[sid]].sess_local_port = p

(***************************************************************************)
(* C21: a /setup or /authenticate request that fails after its control     *)
(* connection was opened has closed that connection when it answers, has   *)
(* stored no session, and answers with an error.                           *)
(***************************************************************************)
C21_FailedSetupClosesConnection ==
    (/\ fPc = "done"
     /\ fRoute \in {"setup", "authenticate"}
     /\ ~fOut.success
     /\ fMgr[fEmail].ssh_client \in {"connected", "closed"})
        => /\ fMgr[fEmail].ssh_client = "closed"
           /\ fTable[fEmail] = "absent"

(***************************************************************************)
(* C22: after a connect_ssh that failed the manager holds no client:       *)
(* ssh_client is None.                                                     *)
(***************************************************************************)
C22_FailedConnectLeavesNoClient ==
    (fPc = "done" /\ fOut.msg = "SSH connection failed")
        => fMgr[fEmail].ssh_client = "none"

(***************************************************************************)
(* C25: a /stop request for a stored session tears the session down        *)
(* whatever the stop command does, and also when the session has no        *)
(* container: when it answers, the connection is closed and the entry is   *)
(* removed.                                                                *)
(***************************************************************************)
C25_StopCommandBestEffort ==
    (fPc = "done" /\ fRoute = "stop" /\ fOut.msg # "Session not found")
        => /\ fTable[fEmail] = "absent"
           /\ fMgr[fEmail].ssh_client = "closed"

(***************************************************************************)
(* C23: parse_container_list returns one entry for each well-formed        *)
(* container line, in the order of the lines, and nothing for the other    *)
(* lines; the entry has the bracketed name, the whole Framework-version    *)
(* token as its framework, and the rest of the line as its status.         *)
(***************************************************************************)
WellFormed(l) ==
    /\ l.kind = "container"
    /\ \E k \in 1..(Len(l.token) - 1) : l.token[k] = "-"

RECURSIVE WellFormedLines(_)
WellFormedLines(lines) ==
    IF lines = <<>> THEN <<>>
    ELSE IF WellFormed(Head(lines))
         THEN <<Head(lines)>> \o WellFormedLines(Tail(lines))
         ELSE WellFormedLines(Tail(lines))

C23_OneEntryPerContainerLine ==
    plPc = "done"
        => LET w == WellFormedLines(mlc_output) IN
           /\ Len(containers) = Len(w)
           /\ \A k \in 1..Len(w) :
                 /\ containers[k].name = w[k].name
                 /\ containers[k].framework = w[k].token
                 /\ containers[k].status = w[k].status

(***************************************************************************)
(* C24: a session records a local port only while its tunnel runs: when    *)
(* /cleanup-ports has killed the tunnels, no session records a local port.  *)
(***************************************************************************)
C24_RecordGoneWithTunnel ==
    [][resp'.op = "cleanup-ports"
          => \A sid \in DOMAIN active' :
                objs'[active'[sid]].sess_local_port = None
      ]_vars

(***************************************************************************)
(* C26: the steps of a launch run in one order: discovery, then the local   *)
(* port is acquired, then the tunnel is made.  No request holds a local    *)
(* port while its discovery is still to run.                               *)
(***************************************************************************)
C26_PortAcquiredAfterDiscovery ==
    \A r \in InFlight : r.pc = "lj_start" => r.port = None

(***************************************************************************)
(* C27: a session's recorded local port changes only in a step whose       *)
(* setup_port_forwarding succeeded on that port, the tunnel of the session *)
(* then being bound to it; a setup_port_forwarding that failed is answered *)
(* with its diagnostic output and leaves every record as it was.           *)
(***************************************************************************)
C27_RecordOnlyAfterTunnel ==
    [][/\ \A o \in 1..Len(objs') :
             LET old == IF o <= Len(objs) THEN objs[o].sess_local_port ELSE None IN
             objs'[o].sess_local_port # old
                 => /\ resp'.success
                    /\ resp'.port = objs'[o].sess_local_port
                    /\ portProc'[resp'.port] = Tunnel(o)
       /\ resp'.msg = "Port forwarding failed"
             => /\ ~resp'.success
                /\ resp'.detail = "stderr"
                /\ objs' = objs
                /\ active' = active
      ]_vars

\* a launch whose tunnel could not be made, on a session that has the record
\* of an earlier launch
C27_Witness ==
    /\ resp.op = "launch"
    /\ resp.msg = "Port forwarding failed"
    /\ resp.sid \in DOMAIN active
    /\ objs[active[resp.sid]].sess_local_port # None

C29_AtMostFiveCleanups ==
    Cardinality(Started) <= 5

\* five cleanups are in progress and a sixth session waits for a pool thread
C29_Witness ==
    /\ Cardinality(Started) = 5
    /\ queue # <<>>
    /\ Len(snapshot) > 5

(***************************************************************************)
(* C30: an entry leaves the table of sessions only after the cleanup of    *)
(* its manager has been started.                                           *)
(***************************************************************************)
C30_CleanupBeforeErase ==
    [][\A sid \in DOMAIN active :
          sid \notin DOMAIN active' => objs'[active[sid]].cleaned
      ]_vars

(***************************************************************************)
(* C31: the mapping get_active_sessions returned is a snapshot: creating   *)
(* or removing sessions afterwards does not change its keys, and adding or *)
(* deleting a key of it does not change the registry.                      *)
(***************************************************************************)
C31_ReturnedMappingIsSnapshot ==
    [][/\ \A t \in Callers :
             GetActiveSessions(t) => HeldKeys' = KeyList(sessions)
       /\ (held.made /\ (\E t \in Callers, i \in Ids, kind \in {"ok", "hang"} :
                            CreateSession(t, i, kind)))
             => HeldKeys' = HeldKeys
       /\ (held.made /\ (\E t \in Callers : RemoveSessionJoin(t)))
             => HeldKeys' = HeldKeys
       /\ (\E i \in Ids : HeldDel(i) \/ HeldAdd(i))
             => sessions' = sessions
      ]_vars

\* the caller holds a mapping with a key that was removed from the registry
\* since, and without a key that was created since
C31_Witness ==
    /\ held.made
    /\ \E i \in SeqSet(HeldKeys) : ~Has(sessions, i)
    /\ \E i \in Ids : Has(sessions, i) /\ i \notin SeqSet(HeldKeys)

(***************************************************************************)
(* C32: whatever the interleaving of remove_session calls and the tasks of *)
(* shutdown on one session id, the SessionManager calls the cleanup of a   *)
(* session's manager at most once.                                         *)
(***************************************************************************)
C32_CleanupAtMostOnce == \A i \in Ids : cleanupCalls[i] <= 1

\* a session of the snapshot was removed by remove_session before its task
\* got the lock: the task found the id missing and the cleanup ran once
C32_Witness ==
    \E i \in SeqSet(snapshot) :
        /\ i \notin createdSince
        /\ i \in removedIds
        /\ task[i] = "done"
        /\ cleanupCalls[i] = 1

(***************************************************************************)
(* C33: cleanup_expired_sessions always returns, whatever the registry     *)
(* holds: a call that has begun can always take its next step (it holds    *)
(* the lock, so no other thread can be in its way), and the step that      *)
(* returns gives the number of sessions the call removed.                  *)
(***************************************************************************)
C33_SweepAlwaysReturns ==
    \A t \in Threads :
        /\ (\/ pc[t] = "sw_loop"
            \/ (pc[t] \in {"rm_call", "rm_join", "rm_ended"} /\ caller[t] = "sweep"))
              => ENABLED (\/ SweepCallRemove(t)
                          \/ SweepReturn(t)
                          \/ RemoveSessionEnter(t)
                          \/ RemoveSessionJoin(t))
        /\ (pc[t] = "sw_loop" /\ expired[t].next > Len(expired[t].ids))
              => \A i \in SeqSet(expired[t].ids) : ~Has(sessions, i)

(***************************************************************************)
(* C34: remove_session of a session whose manager's cleanup raises or does *)
(* not end within the join timeout still returns True with the entry gone: *)
(* a cleanup that is still running never keeps the call from returning,    *)
(* and the step that returns deletes the entry.                            *)
(***************************************************************************)
C34_RemoveDespiteFailingCleanup ==
    [][\A t \in Threads :
          (/\ pc[t] \in {"rm_join", "rm_ended"}
           /\ caller[t] = "client"
           /\ Entry(sessions, arg[t]).manager \in {"raise", "hang"})
             => /\ ENABLED RemoveSessionJoin(t)
                /\ pc'[t] \notin {"rm_join", "rm_ended"}
                      => /\ ~Has(sessions', arg[t])
                         /\ lastRet'.t = t
                         /\ lastRet'.op = "remove"
                         /\ lastRet'.ok
      ]_vars

\* remove_session is waiting for a cleanup that never ends, and one whose
\* cleanup raised has ended; both can return
C34_Witness ==
    /\ \E t \in Threads :
          /\ pc[t] = "rm_join"
          /\ Entry(sessions, arg[t]).manager = "hang"
          /\ ENABLED RemoveSessionJoin(t)
    /\ \E i \in removedIds : ~Has(sessions, i)

(***************************************************************************)
(* C36: shutdown cleans only the sessions of its snapshot: a session that  *)
(* was created after the snapshot, and that no remove_session call has     *)
(* removed, is never being cleaned up by a task of that shutdown and is in *)
(* the registry when shutdown has returned.                                *)
(***************************************************************************)
C36_LateSessionsSurviveShutdown ==
    \A i \in createdSince \ removedIds :
        /\ task[i] # "cleaning"
        /\ sdPc = "returned" => Has(sessions, i)

(***************************************************************************)
(* C35: once the entry of a session id has been deleted from the session   *)
(* table, every later workload request that presents the id is answered    *)
(* 'Invalid session' and runs no remote command.                           *)
(***************************************************************************)
C35_RemovedIdIsRejected ==
    [][\A route \in WorkloadRoutes, sid \in fGone,
          fields \in BOOLEAN, outcome \in RunOutcomes :
             WorkloadOp(route, sid, fields, outcome)
                => /\ fOut' = Out(FALSE, "Invalid session")
                   /\ fSteps' = <<>>
      ]_vars

====
